---- MODULE Spec2Model ----
(***************************************************************************)
(* Signal-generation pipeline of the crypto screening bot                  *)
(* (src/signal_logic.py) with the collaborators it reads: the live-price   *)
(* map of src/ws_prices.py and the OHLC provider behind                    *)
(* src/exchange_factory.py, the pair cache of src/bybit_data.py, and the   *)
(* scan command of src/discord_bot.py that runs the pipeline in worker     *)
(* threads.                                                                *)
(*                                                                         *)
(* Numbers.  Python floats are modelled as exact fixed-point integers.     *)
(* Prices, EMAs, ATR, stops and targets are counted in ticks of 1e-11      *)
(* quote units; candle prices are whole "levels" of TicksPerLevel ticks    *)
(* (1e-7 quote units), which makes every product the code forms (x0.002,   *)
(* x0.2, x1.5, x2.5, x0.01, x0.99, x1.01) an integer.  The only absolute   *)
(* threshold of the plan builder, 1e-8, is Eps = 1000 ticks, so both sides *)
(* of it are populated.  RSI and stochastic are plain numbers 0..100, MACD *)
(* is counted in hundredths of a quote unit, the volume ratio in           *)
(* hundredths.  NaN and None are two sentinels; every comparison with NaN  *)
(* is false, as in IEEE-754.                                                *)
(***************************************************************************)
EXTENDS Integers, Sequences, FiniteSets, TLC

VARIABLES args, provider, PRICES, pc, raised, calls, loc, result, run, prev,
          bybit, tasks, scan, listener

vars == <<args, provider, PRICES, pc, raised, calls, loc, result, run, prev,
          bybit, tasks, scan, listener>>

-----------------------------------------------------------------------------
(* Scales, sentinels, bounds *)

TicksPerLevel == 100 * 100

Eps == 1000

MIN_CANDLES == 50

SWING_LOOKBACK == 20

TP_LOOKBACK == 50

MaxLevel == 3

ExtraCandles == 1

NaN == -2000000001

None == -2000000002

Levels == 1..MaxLevel

Tk(level) == level * TicksPerLevel

IsNum(x) == x # NaN /\ x # None

\* Python float comparisons: false as soon as one side is NaN
GT(a, b) == a # NaN /\ b # NaN /\ a > b

LT(a, b) == a # NaN /\ b # NaN /\ a < b

GE(a, b) == a # NaN /\ b # NaN /\ a >= b

LE(a, b) == a # NaN /\ b # NaN /\ a <= b

Abs(x) == IF x < 0 THEN -x ELSE x

Max2(a, b) == IF a >= b THEN a ELSE b

Min2(a, b) == IF a <= b THEN a ELSE b

\* Python truthiness of an optional float: None and 0.0 are falsy
Truthy(x) == x # None /\ x # 0

-----------------------------------------------------------------------------
(* Strings: str.lower() and the exchange modules' normalize_symbol *)

VALID_TFS == {"1m", "3m", "5m", "15m", "30m", "1h", "2h", "4h", "6h", "1d", "1w", "1M"}

Lower(s) ==
    CASE s = "1M" -> "1m"
      [] s = "1H" -> "1h"
      [] s = "4H" -> "4h"
      [] s = "1D" -> "1d"
      [] s = "LONG" -> "long"
      [] s = "Short" -> "short"
      [] s = "Buy" -> "buy"
      [] s = "SHORT" -> "short"
      [] s = "DETAIL" -> "detail"
      [] s = "BTC" -> "btc"
      [] s = "ETH" -> "eth"
      [] s = "XYZ" -> "xyz"
      [] OTHER -> s

normalize_symbol(s) ==
    CASE s = "btc" -> "BTCUSDT"
      [] s = "BTC" -> "BTCUSDT"
      [] s = "ETH" -> "ETHUSDT"
      [] s = "XYZ" -> "XYZUSDT"
      [] s = "ETHUSDT" -> "ETHUSDT"
      [] s = "XYZUSDT" -> "XYZUSDT"
      [] s = "BTCUSDT" -> "BTCUSDT"
      [] s = "eth/usdt" -> "ETHUSDT"
      [] s = "" -> "USDT"
      [] OTHER -> s

\* variant: only a missing timeframe is refused
TimeframeNonEmpty(tf) == tf # ""

TimeframeValid(tf) == Lower(tf) \in {Lower(t) : t \in VALID_TFS}

-----------------------------------------------------------------------------
(* Candles.  A frame is a sequence of candles, oldest first; Python's      *)
(* 0-based row i is element i + 1.                                         *)

Row(df, i) == df[i + 1]

LastRow(df) == df[Len(df)]

RECURSIVE MinLow(_, _, _)
MinLow(df, from, to) ==
    IF from = to THEN df[from].low
    ELSE Min2(df[from].low, MinLow(df, from + 1, to))

RECURSIVE MaxHigh(_, _, _)
MaxHigh(df, from, to) ==
    IF from = to THEN df[from].high
    ELSE Max2(df[from].high, MaxHigh(df, from + 1, to))

\* df.iloc[-k:] starts at the first row when the frame is shorter than k
TailStart(df, k) == IF Len(df) > k THEN Len(df) - k + 1 ELSE 1

find_swing_points(df, direction, lookback) ==
    IF Len(df) < lookback THEN None
    ELSE IF direction = "long"
         THEN MinLow(df, TailStart(df, lookback), Len(df))
         ELSE MaxHigh(df, TailStart(df, lookback), Len(df))

NoFvg == [type |-> "None", high |-> None, low |-> None, level |-> None, bar_index |-> None]

\* variant: the gap is measured against the middle candle
FvgAtMiddle(df, i) ==
    LET c1 == Row(df, i - 1)
        c3 == Row(df, i)
    IN IF c3.low > c1.high
       THEN [type |-> "Bullish", high |-> c3.low, low |-> c1.high,
             level |-> (c3.low + c1.high) \div 2, bar_index |-> i]
       ELSE IF c3.high < c1.low
       THEN [type |-> "Bearish", high |-> c1.low, low |-> c3.high,
             level |-> (c1.low + c3.high) \div 2, bar_index |-> i]
       ELSE NoFvg

FvgAt(df, i) ==
    LET c1 == Row(df, i - 2)
        c3 == Row(df, i)
    IN IF c3.low > c1.high
       THEN [type |-> "Bullish", high |-> c3.low, low |-> c1.high,
             level |-> (c3.low + c1.high) \div 2, bar_index |-> i]
       ELSE IF c3.high < c1.low
       THEN [type |-> "Bearish", high |-> c1.low, low |-> c3.high,
             level |-> (c1.low + c3.high) \div 2, bar_index |-> i]
       ELSE NoFvg

detect_fvg(df) ==
    LET all == [k \in 1..(Len(df) - 2) |-> FvgAt(df, k + 1)]
    IN SelectSeq(all, LAMBDA f : f.type # "None")

\* Python's min(filtered, key=...) keeps the first of several minima
RECURSIVE FirstMinBy(_, _, _)
FirstMinBy(s, close, best) ==
    IF s = <<>> THEN best
    ELSE IF Abs(Head(s).level - close) < Abs(best.level - close)
         THEN FirstMinBy(Tail(s), close, Head(s))
         ELSE FirstMinBy(Tail(s), close, best)

\* variant: the first candle is not taken as an Order Block
find_smc_levels_after_first(df, fvgs, direction) ==
    LET target_type == IF direction = "long" THEN "Bullish" ELSE "Bearish"
        filtered == SelectSeq(fvgs, LAMBDA f : f.type = target_type)
        relevant_fvg == IF filtered # <<>>
                        THEN FirstMinBy(Tail(filtered), LastRow(df).close, Head(filtered))
                        ELSE NoFvg
        ob_idx == relevant_fvg.bar_index - 2
        has_ob == relevant_fvg.type # "None" /\ ob_idx > 0
    IN [ob_high |-> IF has_ob THEN Row(df, ob_idx).high ELSE None,
        ob_low |-> IF has_ob THEN Row(df, ob_idx).low ELSE None,
        relevant_fvg |-> relevant_fvg]

\* variant: the nearest gap of either type
find_smc_levels_any_type(df, fvgs, direction) ==
    LET target_type == IF direction = "long" THEN "Bullish" ELSE "Bearish"
        filtered == SelectSeq(fvgs, LAMBDA f : f.type # target_type \/ f.type = target_type)
        relevant_fvg == IF filtered # <<>>
                        THEN FirstMinBy(Tail(filtered), LastRow(df).close, Head(filtered))
                        ELSE NoFvg
        ob_idx == relevant_fvg.bar_index - 2
        has_ob == relevant_fvg.type # "None" /\ ob_idx >= 0
    IN [ob_high |-> IF has_ob THEN Row(df, ob_idx).high ELSE None,
        ob_low |-> IF has_ob THEN Row(df, ob_idx).low ELSE None,
        relevant_fvg |-> relevant_fvg]

find_smc_levels(df, fvgs, direction) ==
    LET target_type == IF direction = "long" THEN "Bullish" ELSE "Bearish"
        filtered == SelectSeq(fvgs, LAMBDA f : f.type = target_type)
        relevant_fvg == IF filtered # <<>>
                        THEN FirstMinBy(Tail(filtered), LastRow(df).close, Head(filtered))
                        ELSE NoFvg
        ob_idx == relevant_fvg.bar_index - 2
        has_ob == relevant_fvg.type # "None" /\ ob_idx >= 0
    IN [ob_high |-> IF has_ob THEN Row(df, ob_idx).high ELSE None,
        ob_low |-> IF has_ob THEN Row(df, ob_idx).low ELSE None,
        relevant_fvg |-> relevant_fvg]

TrendQuality(strength_score) ==
    IF strength_score >= 70 THEN "VERY STRONG"
    ELSE IF strength_score >= 50 THEN "STRONG"
    ELSE IF strength_score >= 30 THEN "MODERATE"
    ELSE "WEAK"

-----------------------------------------------------------------------------
(* calculate_rr (src/utils.py) for numeric arguments: round(reward/risk, 2) *)
(* in hundredths, ties to even; None when the risk is below 1e-8.          *)

calculate_rr(entry, stop, tp) ==
    LET risk == Abs(entry - stop)
        reward == Abs(tp - entry)
        q == (reward * 100) \div risk
        r == (reward * 100) % risk
    IN IF risk < Eps THEN None
       ELSE IF 2 * r < risk THEN q
       ELSE IF 2 * r > risk THEN q + 1
       ELSE IF q % 2 = 0 THEN q ELSE q + 1

-----------------------------------------------------------------------------
(* Confidence scoring.  x / (current_price if current_price != 0 else 1)   *)
(* * 100 compared with k10 / 10 percent, without dividing.                 *)

PctGT(d, cp, k10) ==
    IF d = NaN \/ cp = NaN THEN FALSE
    ELSE IF cp > 0 THEN d * 1000 > k10 * cp
    ELSE IF cp < 0 THEN d * 1000 < k10 * cp
    ELSE d > k10 * 100000000

PctLE(d, cp, k10) ==
    IF d = NaN \/ cp = NaN THEN FALSE
    ELSE IF cp > 0 THEN d * 1000 <= k10 * cp
    ELSE IF cp < 0 THEN d * 1000 >= k10 * cp
    ELSE d <= k10 * 100000000

NanAbsDiff(a, b) == IF a = NaN \/ b = NaN THEN NaN ELSE Abs(a - b)

NanDiff(a, b) == IF a = NaN \/ b = NaN THEN NaN ELSE a - b

Part(pts, why) == [pts |-> pts, reasons |-> why]

EmaScore(direction, ema13, ema21) ==
    IF direction = "long" /\ GT(ema13, ema21) THEN Part(8, <<"ema_bull+8">>)
    ELSE IF direction = "short" /\ LT(ema13, ema21) THEN Part(8, <<"ema_bear+8">>)
    ELSE IF direction = "long" /\ LE(ema13, ema21) THEN Part(-5, <<"ema_counter_long-5">>)
    ELSE IF direction = "short" /\ GE(ema13, ema21) THEN Part(-5, <<"ema_counter_short-5">>)
    ELSE Part(0, <<>>)

SpreadScore(ema13, ema21, current_price) ==
    LET d == NanAbsDiff(ema13, ema21)
    IN IF PctGT(d, current_price, 10) THEN Part(6, <<"spread_strong+6">>)
       ELSE IF PctGT(d, current_price, 5) THEN Part(3, <<"spread_moderate+3">>)
       ELSE Part(0, <<"spread_weak">>)

MacdScore(direction, macd_line, macd_signal) ==
    LET macd_diff == NanDiff(macd_line, macd_signal)
    IN IF direction = "long" /\ GT(macd_diff, 0)
       THEN IF GT(macd_diff, 5) THEN Part(17, <<"macd_pos+10", "macd_explosive+7">>)
            ELSE IF GT(macd_diff, 1) THEN Part(13, <<"macd_pos+10", "macd_building+3">>)
            ELSE Part(10, <<"macd_pos+10">>)
       ELSE IF direction = "short" /\ LT(macd_diff, 0)
       THEN IF LT(macd_diff, -5) THEN Part(17, <<"macd_neg+10", "macd_explosive+7">>)
            ELSE IF LT(macd_diff, -1) THEN Part(13, <<"macd_neg+10", "macd_building+3">>)
            ELSE Part(10, <<"macd_neg+10">>)
       ELSE IF direction = "long" /\ LE(macd_diff, 0) THEN Part(-8, <<"macd_counter_long-8">>)
       ELSE IF direction = "short" /\ GE(macd_diff, 0) THEN Part(-8, <<"macd_counter_short-8">>)
       ELSE Part(0, <<>>)

\* variant: the unfavourable extremes include 70 and 30
RsiScoreInclusive(direction, rsi) ==
    IF LE(40, rsi) /\ LE(rsi, 60) THEN Part(12, <<"rsi_neutral+12">>)
    ELSE IF direction = "long" /\ LE(30, rsi) /\ LT(rsi, 40) THEN Part(10, <<"rsi_long_entry+10">>)
    ELSE IF direction = "short" /\ LT(60, rsi) /\ LE(rsi, 70) THEN Part(10, <<"rsi_short_entry+10">>)
    ELSE IF direction = "long" /\ GE(rsi, 70) THEN Part(-10, <<"rsi_overbought-10">>)
    ELSE IF direction = "short" /\ LE(rsi, 30) THEN Part(-10, <<"rsi_oversold-10">>)
    ELSE IF (LE(30, rsi) /\ LT(rsi, 40)) \/ (LT(60, rsi) /\ LE(rsi, 70))
    THEN Part(5, <<"rsi_acceptable+5">>)
    ELSE IF LT(rsi, 30) THEN Part(0, <<"rsi_oversold_extreme">>)
    ELSE Part(0, <<"rsi_overbought_extreme">>)

RsiScore(direction, rsi) ==
    IF LE(40, rsi) /\ LE(rsi, 60) THEN Part(12, <<"rsi_neutral+12">>)
    ELSE IF direction = "long" /\ LE(30, rsi) /\ LT(rsi, 40) THEN Part(10, <<"rsi_long_entry+10">>)
    ELSE IF direction = "short" /\ LT(60, rsi) /\ LE(rsi, 70) THEN Part(10, <<"rsi_short_entry+10">>)
    ELSE IF direction = "long" /\ GT(rsi, 70) THEN Part(-10, <<"rsi_overbought-10">>)
    ELSE IF direction = "short" /\ LT(rsi, 30) THEN Part(-10, <<"rsi_oversold-10">>)
    ELSE IF (LE(30, rsi) /\ LT(rsi, 40)) \/ (LT(60, rsi) /\ LE(rsi, 70))
    THEN Part(5, <<"rsi_acceptable+5">>)
    ELSE IF LT(rsi, 30) THEN Part(0, <<"rsi_oversold_extreme">>)
    ELSE Part(0, <<"rsi_overbought_extreme">>)

SmcScore(relevant_fvg, ob_high, ob_low, entry_price, current_price) ==
    LET has_fvg == relevant_fvg.type # "None"
        has_ob == Truthy(ob_high) \/ Truthy(ob_low)
        dist == NanAbsDiff(entry_price, relevant_fvg.level)
        fvgPart == IF has_fvg THEN Part(8, <<"fvg+8">>) ELSE Part(0, <<>>)
        obPart == IF has_ob THEN Part(7, <<"ob+7">>) ELSE Part(0, <<>>)
        distPart == IF ~has_fvg THEN Part(0, <<>>)
                    ELSE IF PctLE(dist, current_price, 2) THEN Part(5, <<"entry_near_fvg+5">>)
                    ELSE IF PctLE(dist, current_price, 5) THEN Part(0, <<"entry_fair_fvg">>)
                    ELSE Part(0, <<"entry_far_fvg">>)
        nonePart == IF ~has_fvg /\ ~has_ob THEN Part(0, <<"no_smc">>) ELSE Part(0, <<>>)
    IN Part(fvgPart.pts + obPart.pts + distPart.pts,
            fvgPart.reasons \o obPart.reasons \o distPart.reasons \o nonePart.reasons)

\* variant: the pre-crossover zone is the crossover's extreme zone
StochRawSingleZone(direction, stoch_k, stoch_d) ==
    IF stoch_k # None /\ stoch_d # None
    THEN IF direction = "long" /\ GT(stoch_k, stoch_d)
         THEN IF LT(stoch_k, 20) THEN Part(12, <<"stoch_bull_cross+8", "stoch_oversold+4">>)
              ELSE IF GT(stoch_k, 80) THEN Part(5, <<"stoch_bull_cross+8", "stoch_overbought-3">>)
              ELSE IF LE(20, stoch_k) /\ LE(stoch_k, 80)
              THEN Part(8, <<"stoch_bull_cross+8", "stoch_cross_neutral">>)
              ELSE Part(8, <<"stoch_bull_cross+8">>)
         ELSE IF direction = "short" /\ LT(stoch_k, stoch_d)
         THEN IF GT(stoch_k, 80) THEN Part(12, <<"stoch_bear_cross+8", "stoch_overbought+4">>)
              ELSE IF LT(stoch_k, 20) THEN Part(5, <<"stoch_bear_cross+8", "stoch_oversold-3">>)
              ELSE IF LE(20, stoch_k) /\ LE(stoch_k, 80)
              THEN Part(8, <<"stoch_bear_cross+8", "stoch_cross_neutral">>)
              ELSE Part(8, <<"stoch_bear_cross+8">>)
         ELSE IF direction = "long" /\ LT(stoch_k, 20) THEN Part(3, <<"stoch_wait_bull+3">>)
         ELSE IF direction = "short" /\ GT(stoch_k, 80) THEN Part(3, <<"stoch_wait_bear+3">>)
         ELSE IF direction = "long" /\ LT(stoch_k, stoch_d) THEN Part(0, <<"stoch_against_long">>)
         ELSE IF direction = "short" /\ GT(stoch_k, stoch_d) THEN Part(0, <<"stoch_against_short">>)
         ELSE Part(0, <<"stoch_neutral">>)
    ELSE Part(0, <<"stoch_unavailable">>)

StochRaw(direction, stoch_k, stoch_d) ==
    IF stoch_k # None /\ stoch_d # None
    THEN IF direction = "long" /\ GT(stoch_k, stoch_d)
         THEN IF LT(stoch_k, 20) THEN Part(12, <<"stoch_bull_cross+8", "stoch_oversold+4">>)
              ELSE IF GT(stoch_k, 80) THEN Part(5, <<"stoch_bull_cross+8", "stoch_overbought-3">>)
              ELSE IF LE(20, stoch_k) /\ LE(stoch_k, 80)
              THEN Part(8, <<"stoch_bull_cross+8", "stoch_cross_neutral">>)
              ELSE Part(8, <<"stoch_bull_cross+8">>)
         ELSE IF direction = "short" /\ LT(stoch_k, stoch_d)
         THEN IF GT(stoch_k, 80) THEN Part(12, <<"stoch_bear_cross+8", "stoch_overbought+4">>)
              ELSE IF LT(stoch_k, 20) THEN Part(5, <<"stoch_bear_cross+8", "stoch_oversold-3">>)
              ELSE IF LE(20, stoch_k) /\ LE(stoch_k, 80)
              THEN Part(8, <<"stoch_bear_cross+8", "stoch_cross_neutral">>)
              ELSE Part(8, <<"stoch_bear_cross+8">>)
         ELSE IF direction = "long" /\ LT(stoch_k, 30) THEN Part(3, <<"stoch_wait_bull+3">>)
         ELSE IF direction = "short" /\ GT(stoch_k, 70) THEN Part(3, <<"stoch_wait_bear+3">>)
         ELSE IF direction = "long" /\ LT(stoch_k, stoch_d) THEN Part(0, <<"stoch_against_long">>)
         ELSE IF direction = "short" /\ GT(stoch_k, stoch_d) THEN Part(0, <<"stoch_against_short">>)
         ELSE Part(0, <<"stoch_neutral">>)
    ELSE Part(0, <<"stoch_unavailable">>)

StochScore(direction, stoch_k, stoch_d) ==
    LET raw == StochRaw(direction, stoch_k, stoch_d)
    IN Part(Max2(Min2(raw.pts, 12), -5), raw.reasons)

VolScore(vol_ratio) ==
    IF vol_ratio # None
    THEN IF GE(vol_ratio, 150) THEN Part(13, <<"vol_very_high+13">>)
         ELSE IF GE(vol_ratio, 100) THEN Part(8, <<"vol_above_avg+8">>)
         ELSE IF GE(vol_ratio, 70) THEN Part(3, <<"vol_normal+3">>)
         ELSE Part(-7, <<"vol_low-7">>)
    ELSE Part(0, <<"vol_unavailable">>)

\* variant: only the upper clamp
ClampScoreUpperOnly(score) == Min2(score, 100)

ClampScore(score) == Max2(0, Min2(score, 100))

ConfidenceLabel(score) ==
    IF score >= 80 THEN "HIGH"
    ELSE IF score >= 60 THEN "MEDIUM"
    ELSE IF score >= 40 THEN "LOW"
    ELSE "VERY LOW"

\* a: the positional arguments of calculate_confidence_score as a record
calculate_confidence_score(a) ==
    LET parts == << EmaScore(a.direction, a.ema13, a.ema21),
                    SpreadScore(a.ema13, a.ema21, a.current_price),
                    MacdScore(a.direction, a.macd_line, a.macd_signal),
                    RsiScore(a.direction, a.rsi),
                    SmcScore(a.relevant_fvg, a.ob_high, a.ob_low, a.entry_price, a.current_price),
                    StochScore(a.direction, a.stoch_k, a.stoch_d),
                    VolScore(a.vol_ratio) >>
        sum == parts[1].pts + parts[2].pts + parts[3].pts + parts[4].pts
               + parts[5].pts + parts[6].pts + parts[7].pts
        score == ClampScore(sum)
    IN [score |-> score,
        label |-> ConfidenceLabel(score),
        reasons |-> parts[1].reasons \o parts[2].reasons \o parts[3].reasons
                    \o parts[4].reasons \o parts[5].reasons \o parts[6].reasons
                    \o parts[7].reasons,
        raw |-> sum]

-----------------------------------------------------------------------------
(* Direction resolver (generate_trade_plan, lines 467-487) *)

\* variant: the RSI is not consulted
AutoDirectionEmaOnly(ema13, ema21, rsi_val) ==
    IF GT(ema13, ema21) THEN "long"
    ELSE IF LT(ema13, ema21) THEN "short"
    ELSE "neutral"

\* variant: the RSI bounds are inclusive
AutoDirectionInclusive(ema13, ema21, rsi_val) ==
    IF GT(ema13, ema21) /\ LE(rsi_val, 70) THEN "long"
    ELSE IF LT(ema13, ema21) /\ GE(rsi_val, 30) THEN "short"
    ELSE "neutral"

AutoDirection(ema13, ema21, rsi_val) ==
    IF GT(ema13, ema21) /\ LT(rsi_val, 70) THEN "long"
    ELSE IF LT(ema13, ema21) /\ GT(rsi_val, 30) THEN "short"
    ELSE "neutral"

\* variant: any divergence flag, of either side, keeps the direction
WeakTrendFilterAnySide(direction, quality, divergences) ==
    IF direction # "neutral" /\ quality = "WEAK"
    THEN LET has_divergence ==
                 \/ divergences.rsi_bull \/ divergences.macd_bull
                 \/ divergences.rsi_bear \/ divergences.macd_bear
         IN IF ~has_divergence THEN "neutral" ELSE direction
    ELSE direction

WeakTrendFilter(direction, quality, divergences) ==
    IF direction # "neutral" /\ quality = "WEAK"
    THEN LET has_divergence ==
                 \/ direction = "long" /\ (divergences.rsi_bull \/ divergences.macd_bull)
                 \/ direction = "short" /\ (divergences.rsi_bear \/ divergences.macd_bear)
         IN IF ~has_divergence THEN "neutral" ELSE direction
    ELSE direction

ApplyForced(direction, forced_direction) ==
    IF forced_direction # "None" /\ forced_direction # ""
       /\ Lower(forced_direction) \in {"long", "short"}
    THEN Lower(forced_direction)
    ELSE direction

\* variant: the weak-trend filter runs after the forced direction is applied
ResolveDirectionFilterLast(ema13, ema21, rsi_val, quality, divergences, forced_direction) ==
    WeakTrendFilter(ApplyForced(AutoDirection(ema13, ema21, rsi_val), forced_direction),
                    quality, divergences)

ResolveDirection(ema13, ema21, rsi_val, quality, divergences, forced_direction) ==
    ApplyForced(WeakTrendFilter(AutoDirection(ema13, ema21, rsi_val), quality, divergences),
                forced_direction)

-----------------------------------------------------------------------------
(* Trade-plan builder (generate_trade_plan, lines 526-598) *)

\* x * num / den; every use is exact on the tick grid
Times(x, num, den) == (x * num) \div den

\* variant: the long EMA when the price is within 0.5 % of it
EntryPriceNear(direction, relevant_fvg, ob_high, ob_low, ema21, current_price) ==
    IF direction = "long"
    THEN IF relevant_fvg.type # "None" /\ Truthy(ob_low) THEN relevant_fvg.low
         ELSE IF 1000 * Abs(current_price - ema21) <= 5 * ema21 THEN ema21
         ELSE current_price
    ELSE IF relevant_fvg.type # "None" /\ Truthy(ob_high) THEN relevant_fvg.high
         ELSE IF 1000 * Abs(current_price - ema21) <= 5 * ema21 THEN ema21
         ELSE current_price

EntryPrice(direction, relevant_fvg, ob_high, ob_low, ema21, current_price) ==
    IF direction = "long"
    THEN IF relevant_fvg.type # "None" /\ Truthy(ob_low) THEN relevant_fvg.low
         ELSE IF current_price * 1000 > ema21 * 1005 THEN ema21 ELSE current_price
    ELSE IF relevant_fvg.type # "None" /\ Truthy(ob_high) THEN relevant_fvg.high
         ELSE IF current_price * 1000 < ema21 * 995 THEN ema21 ELSE current_price

\* variant: the Order Block bound is preferred to the swing point
NaturalStopOrderBlockFirst(direction, swing_point, ob_high, ob_low, entry_price, atr) ==
    LET sl_buffer == Times(atr, 2, 10)
    IN IF direction = "long"
       THEN IF Truthy(ob_low) THEN ob_low - sl_buffer
            ELSE IF Truthy(swing_point) THEN swing_point - sl_buffer
            ELSE entry_price - atr * 2
       ELSE IF Truthy(ob_high) THEN ob_high + sl_buffer
            ELSE IF Truthy(swing_point) THEN swing_point + sl_buffer
            ELSE entry_price + atr * 2

NaturalStop(direction, swing_point, ob_high, ob_low, entry_price, atr) ==
    LET sl_buffer == Times(atr, 2, 10)
    IN IF direction = "long"
       THEN IF Truthy(swing_point) THEN swing_point - sl_buffer
            ELSE IF Truthy(ob_low) THEN ob_low - sl_buffer
            ELSE entry_price - atr * 2
       ELSE IF Truthy(swing_point) THEN swing_point + sl_buffer
            ELSE IF Truthy(ob_high) THEN ob_high + sl_buffer
            ELSE entry_price + atr * 2

\* variant: one ATR instead of one and a half
ClampDistanceOneAtr(entry_price, atr) == Max2(atr, Times(entry_price, 1, 100))

ClampDistance(entry_price, atr) == Max2(Times(atr, 15, 10), Times(entry_price, 1, 100))

NeedsClamp(direction, stop, entry_price) ==
    IF direction = "long" THEN stop >= entry_price ELSE stop <= entry_price

ClampStop(direction, stop, entry_price, atr) ==
    IF NeedsClamp(direction, stop, entry_price)
    THEN IF direction = "long"
         THEN entry_price - ClampDistance(entry_price, atr)
         ELSE entry_price + ClampDistance(entry_price, atr)
    ELSE stop

DegenerateRisk(stop, entry_price) == Abs(entry_price - stop) < Eps

RederiveStop(direction, stop, entry_price, atr) ==
    IF DegenerateRisk(stop, entry_price)
    THEN IF direction = "long" THEN entry_price - atr * 2 ELSE entry_price + atr * 2
    ELSE stop

Risk(entry_price, stop) == Abs(entry_price - stop)

RRMultiplier(quality) == IF quality \in {"STRONG", "VERY STRONG"} THEN 30 ELSE 25

TakeProfit2(direction, df, entry_price, risk, quality) ==
    IF direction = "long"
    THEN LET lookback_high == MaxHigh(df, TailStart(df, TP_LOOKBACK), Len(df))
         IN IF lookback_high > entry_price + Times(risk, 15, 10)
            THEN Times(lookback_high, 99, 100)
            ELSE entry_price + Times(risk, RRMultiplier(quality), 10)
    ELSE LET lookback_low == MinLow(df, TailStart(df, TP_LOOKBACK), Len(df))
         IN IF lookback_low < entry_price - Times(risk, 15, 10)
            THEN Times(lookback_low, 101, 100)
            ELSE entry_price - Times(risk, RRMultiplier(quality), 10)

\* variant: the target is always placed above the entry
TakeProfit1Above(direction, entry_price, risk) == entry_price + Times(risk, 15, 10)

TakeProfit1(direction, entry_price, risk) ==
    IF direction = "long" THEN entry_price + Times(risk, 15, 10)
    ELSE entry_price - Times(risk, 15, 10)

\* the locals of lines 526-598; stop_natural and stop_clamped keep the two
\* earlier values of the variable `stop`
TradePlan(direction, df, smc, ema21, current_price, atr, quality) ==
    LET swing_point == find_swing_points(df, direction, SWING_LOOKBACK)
        entry_price == EntryPrice(direction, smc.relevant_fvg, smc.ob_high, smc.ob_low,
                                  ema21, current_price)
        stop_natural == NaturalStop(direction, swing_point, smc.ob_high, smc.ob_low,
                                    entry_price, atr)
        stop_clamped == ClampStop(direction, stop_natural, entry_price, atr)
        stop == RederiveStop(direction, stop_clamped, entry_price, atr)
        risk == Risk(entry_price, stop)
        tp2 == TakeProfit2(direction, df, entry_price, risk, quality)
    IN [swing_point |-> swing_point, entry_price |-> entry_price,
        stop_natural |-> stop_natural, stop_clamped |-> stop_clamped,
        stop |-> stop, risk |-> risk,
        tp1 |-> TakeProfit1(direction, entry_price, risk), tp2 |-> tp2,
        rr |-> calculate_rr(entry_price, stop, tp2)]

-----------------------------------------------------------------------------
(* Last-row values of generate_trade_plan, lines 441-460 *)

\* variant: the live price is read under a fixed key
CurrentPriceFixedKey(ws_price, last_close) ==
    IF PRICES["ETHUSDT"] # None THEN PRICES["ETHUSDT"] ELSE last_close

CurrentPrice(ws_price, last_close) == IF ws_price # None THEN ws_price ELSE last_close

\* variant: a zero ATR is used as it is
AtrValueNoFloor(last_atr, current_price) ==
    IF last_atr # NaN THEN last_atr
    ELSE Abs(Times(current_price, 2, 1000))

\* variant: the floor is 2 % of the current price
AtrValueWideFloor(last_atr, current_price) ==
    IF last_atr # NaN /\ last_atr > 0 THEN last_atr
    ELSE Abs(Times(current_price, 2, 100))

AtrValue(last_atr, current_price) ==
    IF last_atr # NaN /\ last_atr > 0 THEN last_atr
    ELSE Abs(Times(current_price, 2, 1000))

\* variant: the NaN is passed on
OptionalValueRaw(x) == x

OptionalValue(x) == IF x # NaN THEN x ELSE None

VolRatio(volume, last_vol_ema20) ==
    LET vol_ema20 == IF last_vol_ema20 # NaN /\ last_vol_ema20 > 0 THEN last_vol_ema20 ELSE None
        current_vol == IF volume # NaN THEN volume ELSE None
    IN IF Truthy(vol_ema20) /\ current_vol # None /\ vol_ema20 > 0
       THEN (current_vol * 100) \div vol_ema20
       ELSE None

Upper(s) ==
    CASE s = "long" -> "LONG"
      [] s = "short" -> "SHORT"
      [] s = "bybit" -> "BYBIT"
      [] s = "binance" -> "BINANCE"
      [] s = "bitget" -> "BITGET"
      [] s = "gateio" -> "GATEIO"
      [] OTHER -> s

-----------------------------------------------------------------------------
(* State of one invocation *)

NoPlan == [swing_point |-> None, entry_price |-> None, stop_natural |-> None,
           stop_clamped |-> None, stop |-> None, risk |-> None,
           tp1 |-> None, tp2 |-> None, rr |-> None]

NoConf == [score |-> None, label |-> "", reasons |-> <<>>, raw |-> None]

NoSmc == [ob_high |-> None, ob_low |-> None, relevant_fvg |-> NoFvg]

LocInit == [symbol |-> "", module |-> "", interval |-> "", df |-> <<>>, ws_price |-> None, current_price |-> None,
            atr |-> None, stoch_k |-> None, stoch_d |-> None, vol_ratio |-> None,
            quality |-> "", rule_direction |-> "", auto_direction |-> "", direction |-> "",
            fvgs |-> <<>>, smc |-> NoSmc, plan |-> NoPlan, conf |-> NoConf]

NoResult == [direction |-> ""]

NoPrev == [run |-> 0, result |-> NoResult, raised |-> "", ws_price |-> None]

Symbols == {"BTCUSDT", "ETHUSDT"}

\* timeframe.lower() not in [t.lower() for t in VALID_TFS] -> ValueError
Validate ==
    /\ pc = "start"
    /\ calls' = Append(calls, "normalize_symbol")
    /\ loc' = [loc EXCEPT !.symbol = normalize_symbol(args.symbol)]
    /\ IF ~TimeframeValid(args.timeframe)
       THEN pc' = "raised" /\ raised' = "InvalidTimeframe"
       ELSE pc' = "fetch" /\ raised' = raised
    /\ UNCHANGED <<listener, bybit, tasks, scan, args, provider, PRICES, result, run, prev>>

\* variant: exactly 50 candles are refused too
InsufficientInclusive(resp) ==
    resp.kind = "none" \/ Len(resp.candles) = 0 \/ Len(resp.candles) <= MIN_CANDLES

Insufficient(resp) ==
    resp.kind = "none" \/ Len(resp.candles) = 0 \/ Len(resp.candles) < MIN_CANDLES

\* exchange_factory.get_exchange_module: every name other than 'binance'
\* gets bybit_data
get_exchange_module(exchange) ==
    IF Lower(exchange) = "binance" THEN "binance_data" ELSE "bybit_data"

\* tf_map of bybit_data.fetch_ohlc (lines 177-186)
BybitTfMap ==
    ("1m" :> "1") @@ ("3m" :> "3") @@ ("5m" :> "5") @@ ("15m" :> "15") @@ ("30m" :> "30")
    @@ ("1h" :> "60") @@ ("4h" :> "240") @@ ("1d" :> "D")

\* tf_map of binance_data.fetch_ohlc (lines 149-162)
BinanceTfMap == [tf \in VALID_TFS |-> tf]

TfMap(module) == IF module = "binance_data" THEN BinanceTfMap ELSE BybitTfMap

\* timeframe = timeframe.lower(); if timeframe not in tf_map: raise ValueError
TfSupported(module, timeframe) == Lower(timeframe) \in DOMAIN TfMap(module)

Interval(module, timeframe) ==
    IF TfSupported(module, timeframe) THEN TfMap(module)[Lower(timeframe)] ELSE ""

\* df = fetch_ohlc(...): the exchange module maps the timeframe to its
\* interval and requests the candles; fewer than 50 candles -> ValueError
Fetch ==
    /\ pc = "fetch"
    /\ calls' = Append(calls, "fetch_ohlc")
    /\ LET module == get_exchange_module(args.exchange)
           requested == [loc EXCEPT !.module = module,
                                    !.interval = Interval(module, args.timeframe)]
       IN IF ~TfSupported(module, args.timeframe)
          THEN pc' = "raised" /\ raised' = "UnsupportedTimeframe" /\ loc' = requested
          ELSE IF provider.kind = "raises"
          THEN pc' = "raised" /\ raised' = "ProviderError" /\ loc' = requested
          ELSE IF Insufficient(provider)
          THEN pc' = "raised" /\ raised' = "InsufficientData" /\ loc' = requested
          ELSE pc' = "analyze" /\ raised' = raised
               /\ loc' = [requested EXCEPT !.df = provider.candles]
    /\ UNCHANGED <<listener, bybit, tasks, scan, args, provider, PRICES, result, run, prev>>

\* indicators, last-row values, direction, FVG / Order Block (lines 416-494)
Analyze ==
    /\ pc = "analyze"
    /\ LET last == provider.last
           ws_price == PRICES[loc.symbol]
           current_price == CurrentPrice(ws_price, LastRow(loc.df).close)
           quality == TrendQuality(last.strength)
           auto == WeakTrendFilter(AutoDirection(last.ema13, last.ema21, last.rsi),
                                   quality, last.divergences)
           direction == ResolveDirection(last.ema13, last.ema21, last.rsi, quality,
                                         last.divergences, args.forced_direction)
           fvgs == detect_fvg(loc.df)
       IN loc' = [loc EXCEPT !.ws_price = ws_price,
                             !.current_price = current_price,
                             !.atr = AtrValue(last.atr, current_price),
                             !.stoch_k = OptionalValue(last.stoch_k),
                             !.stoch_d = OptionalValue(last.stoch_d),
                             !.vol_ratio = VolRatio(last.volume, last.vol_ema20),
                             !.quality = quality,
                             !.rule_direction = AutoDirection(last.ema13, last.ema21, last.rsi),
                             !.auto_direction = auto,
                             !.direction = direction,
                             !.fvgs = fvgs,
                             !.smc = find_smc_levels(loc.df, fvgs, direction)]
    /\ calls' = calls \o <<"detect_divergence", "calculate_trend_strength",
                           "detect_fvg", "find_smc_levels">>
    /\ pc' = "branch"
    /\ UNCHANGED <<listener, bybit, tasks, scan, args, provider, PRICES, raised, result, run, prev>>

Insight(last, l) ==
    [ema13 |-> last.ema13, ema21 |-> last.ema21, macd_line |-> last.macd_line,
     macd_signal |-> last.macd_signal, rsi |-> last.rsi, atr |-> l.atr]

NeutralResult(last, l) ==
    [direction |-> "neutral",
     current_price |-> l.current_price,
     insight |-> Insight(last, l),
     exchange |-> Upper(args.exchange),
     rsi |-> last.rsi, macd_line |-> last.macd_line, macd_signal |-> last.macd_signal]

\* if direction == 'neutral': return the reduced dict (lines 496-524)
ReturnNeutral ==
    /\ pc = "branch"
    /\ loc.direction = "neutral"
    /\ result' = NeutralResult(provider.last, loc)
    /\ pc' = "done"
    /\ UNCHANGED <<listener, bybit, tasks, scan, args, provider, PRICES, raised, calls, loc, run, prev>>

\* variant: the plan is built for a neutral direction as well
BuildPlanAlways ==
    /\ pc = "branch"
    /\ LET plan == TradePlan(loc.direction, loc.df, loc.smc, provider.last.ema21,
                             loc.current_price, loc.atr, loc.quality)
       IN /\ loc' = [loc EXCEPT !.plan = plan]
          /\ IF plan.rr = None
             THEN pc' = "raised" /\ raised' = "TypeError"
             ELSE pc' = "score" /\ raised' = raised
    /\ calls' = calls \o <<"find_swing_points", "calculate_rr">>
    /\ UNCHANGED <<listener, bybit, tasks, scan, args, provider, PRICES, result, run, prev>>

\* swing point, entry, stop, targets, rr (lines 526-600); the log line 600
\* formats rr with :.2f, which raises TypeError when calculate_rr gave None
BuildPlan ==
    /\ pc = "branch"
    /\ loc.direction # "neutral"
    /\ LET plan == TradePlan(loc.direction, loc.df, loc.smc, provider.last.ema21,
                             loc.current_price, loc.atr, loc.quality)
       IN /\ loc' = [loc EXCEPT !.plan = plan]
          /\ IF plan.rr = None
             THEN pc' = "raised" /\ raised' = "TypeError"
             ELSE pc' = "score" /\ raised' = raised
    /\ calls' = calls \o <<"find_swing_points", "calculate_rr">>
    /\ UNCHANGED <<listener, bybit, tasks, scan, args, provider, PRICES, result, run, prev>>

ScoreArgs(last, l) ==
    [direction |-> l.direction, ema13 |-> last.ema13, ema21 |-> last.ema21,
     macd_line |-> last.macd_line, macd_signal |-> last.macd_signal, rsi |-> last.rsi,
     stoch_k |-> l.stoch_k, stoch_d |-> l.stoch_d, vol_ratio |-> l.vol_ratio,
     relevant_fvg |-> l.smc.relevant_fvg, ob_high |-> l.smc.ob_high, ob_low |-> l.smc.ob_low,
     entry_price |-> l.plan.entry_price, current_price |-> l.current_price]

PlanResult(last, l, conf) ==
    [direction |-> Upper(l.direction),
     entry |-> l.plan.entry_price, stop_loss |-> l.plan.stop,
     tp1 |-> l.plan.tp1, tp2 |-> l.plan.tp2, rr |-> l.plan.rr,
     confidence |-> conf.score, confidence_level |-> conf.label,
     confidence_reasons |-> conf.reasons,
     current_price |-> l.current_price,
     exchange |-> Upper(args.exchange),
     ema_short |-> args.ema_short, ema_long |-> args.ema_long,
     fvg_zones |-> l.fvgs,
     ob_high |-> l.smc.ob_high, ob_low |-> l.smc.ob_low,
     relevant_fvg |-> l.smc.relevant_fvg,
     insight |-> [ind |-> Insight(last, l), stoch_k |-> l.stoch_k, stoch_d |-> l.stoch_d,
                  vol_ratio |-> l.vol_ratio, ob_desc |-> l.smc.relevant_fvg.type # "None",
                  confidence |-> conf.score, reasons |-> conf.reasons],
     rsi |-> last.rsi, macd_line |-> last.macd_line, macd_signal |-> last.macd_signal,
     atr |-> l.atr]

\* confidence and the returned dict (lines 602-661)
Score ==
    /\ pc = "score"
    /\ LET conf == calculate_confidence_score(ScoreArgs(provider.last, loc))
       IN /\ loc' = [loc EXCEPT !.conf = conf]
          /\ result' = PlanResult(provider.last, loc, conf)
    /\ calls' = Append(calls, "calculate_confidence_score")
    /\ pc' = "done"
    /\ UNCHANGED <<listener, bybit, tasks, scan, args, provider, PRICES, raised, run, prev>>

-----------------------------------------------------------------------------
(* Inputs.  The provider's answer is a frame of candles together with the  *)
(* last-row values the indicator library derives from it; the library      *)
(* (ta, pandas) is outside the repository, so its outputs are drawn from   *)
(* small sets, kept consistent with the candles where that is cheap to     *)
(* state: an EMA of the closes lies within the closes' range, and the ATR  *)
(* is zero exactly when no candle ever moved.                              *)

Candle(l, h, c) == [low |-> Tk(l), high |-> Tk(h), close |-> Tk(c)]

Candles == {Candle(l, h, c) : <<l, h, c>> \in {t \in Levels \X Levels \X Levels :
                                                  t[1] <= t[3] /\ t[3] <= t[2]}}

\* n candles: `base` repeated, then the two most recent candles t1, t2
Frame(n, base, t1, t2) ==
    [i \in 1..n |-> IF i = n THEN t2 ELSE IF i = n - 1 THEN t1 ELSE base]

Closes(candles) == {candles[i].close : i \in 1..Len(candles)}

SetMin(S) == CHOOSE x \in S : \A y \in S : x <= y

SetMax(S) == CHOOSE x \in S : \A y \in S : x >= y

Still(candles) ==
    \A i \in 1..Len(candles) :
        /\ candles[i].low = candles[i].high
        /\ candles[i] = candles[1]

Consistent(candles, last) ==
    /\ last.ema13 >= SetMin(Closes(candles)) /\ last.ema13 <= SetMax(Closes(candles))
    /\ last.ema21 >= SetMin(Closes(candles)) /\ last.ema21 <= SetMax(Closes(candles))
    /\ (last.atr = 0) = Still(candles)

NoDivergence == [rsi_bull |-> FALSE, rsi_bear |-> FALSE, macd_bull |-> FALSE, macd_bear |-> FALSE]

Divergences == [rsi_bull : BOOLEAN, rsi_bear : BOOLEAN, macd_bull : BOOLEAN, macd_bear : BOOLEAN]

\* a calm last row: EMAs level, RSI 50, MACD flat, stochastic and volume present
CalmRow(level, atr) ==
    [ema13 |-> Tk(level), ema21 |-> Tk(level), rsi |-> 50, atr |-> atr,
     macd_line |-> 0, macd_signal |-> 0, stoch_k |-> 50, stoch_d |-> 50,
     volume |-> 100, vol_ema20 |-> 100, strength |-> 50, divergences |-> NoDivergence]

\* small ATR values on the tick grid: 6e-9, and one price level
AtrSmall == 6 * 100

AtrInputs(candles) == IF Still(candles) THEN {0} ELSE {AtrSmall, Tk(1)}

Response(kind, candles, last) == [kind |-> kind, candles |-> candles, last |-> last]

RangeCandles == Frame(MIN_CANDLES, Candle(1, MaxLevel, 2), Candle(1, MaxLevel, 1),
                      Candle(1, MaxLevel, MaxLevel))

GapUpCandles == Frame(MIN_CANDLES, Candle(1, 1, 1), Candle(1, 2, 2), Candle(2, MaxLevel, MaxLevel))

GapDownCandles == Frame(MIN_CANDLES, Candle(MaxLevel, MaxLevel, MaxLevel),
                        Candle(2, MaxLevel, 2), Candle(1, 2, 1))

DefaultArgs == [symbol |-> "btc", timeframe |-> "1h", exchange |-> "bybit",
                forced_direction |-> "None", ema_short |-> 13, ema_long |-> 21]

NoPrices == [s \in Symbols |-> None]

\* bybit_data globals before the first lookup; no scan command running
NoCache == [known |-> FALSE, pairs |-> {}]

\* the websocket listener task before start_ws_in_background is called
NoListener == [pc |-> "off"]

NoScan ==
    /\ bybit = [PAIRS_CACHE |-> NoCache, disk |-> NoCache, api |-> NoCache]
    /\ tasks = <<>>
    /\ scan = [phase |-> "idle"]
    /\ listener = NoListener

Start(a, resp, prices) ==
    /\ args = a
    /\ provider = resp
    /\ PRICES = prices
    /\ pc = "start"
    /\ raised = ""
    /\ calls = <<>>
    /\ loc = LocInit
    /\ result = NoResult
    /\ run = 1
    /\ prev = NoPrev
    /\ NoScan

TfInputs == {"1h", "1M", "4H", "1D", "7m", "1y", ""}

ForcedInputs == {"None", "long", "short", "LONG", "Short", "Buy", ""}

RsiInputs == {29, 30, 50, 70, 71}

StrengthInputs == {29, 30, 70}

\* the timeframe varies
InitTf ==
    \E tf \in TfInputs, f \in {"None", "long"} :
        Start([DefaultArgs EXCEPT !.timeframe = tf, !.forced_direction = f],
              Response("frame", RangeCandles, CalmRow(2, Tk(1))), NoPrices)

\* the provider's answer varies: failure, None, and frames around 50 candles
InitData ==
    \E kind \in {"raises", "none", "frame"},
       n \in {0, 1, SWING_LOOKBACK - 1} \cup ((MIN_CANDLES - 1)..(MIN_CANDLES + ExtraCandles)),
       base \in {Candle(2, 2, 2), Candle(1, MaxLevel, 2)},
       f \in {"None", "long", "short"}, e13 \in {1, 2} :
        /\ kind # "frame" => (n = 0 /\ f = "None" /\ e13 = 2 /\ base = Candle(2, 2, 2))
        /\ LET candles == Frame(n, base, base, base)
               row == [CalmRow(2, IF base.low = base.high THEN 0 ELSE Tk(1))
                       EXCEPT !.ema13 = Tk(e13)]
           IN /\ n > 0 => Consistent(candles, row)
              /\ Start([DefaultArgs EXCEPT !.forced_direction = f],
                       Response(kind, candles, row), NoPrices)

\* the inputs of the direction resolver vary
InitDir ==
    \E candles \in {RangeCandles, GapUpCandles, GapDownCandles},
       e13 \in Levels, e21 \in Levels, rsi \in RsiInputs, st \in StrengthInputs,
       div \in Divergences, f \in ForcedInputs :
        LET row == [CalmRow(2, Tk(1)) EXCEPT !.ema13 = Tk(e13), !.ema21 = Tk(e21),
                                               !.rsi = rsi, !.strength = st,
                                               !.divergences = div]
        IN /\ Consistent(candles, row)
           /\ Start([DefaultArgs EXCEPT !.forced_direction = f],
                    Response("frame", candles, row), NoPrices)

Init == InitTf \/ InitData \/ InitDir

Next == Validate \/ Fetch \/ Analyze \/ ReturnNeutral \/ BuildPlan \/ Score

Spec == Init /\ [][Next]_vars

-----------------------------------------------------------------------------
(* Plan-builder inputs: the candles, the long EMA, the ATR, the live price *)
(* and the trend quality vary; the direction is forced or auto-resolved.   *)

PlanBases == {Candle(l, l, l) : l \in Levels} \cup {Candle(1, MaxLevel, 2)}

PlanFrames == {Frame(MIN_CANDLES, base, t1, t2) :
                   <<base, t1, t2>> \in {t \in PlanBases \X Candles \X Candles :
                                            t[2].close = t[2].high}}

WsInputs == {None, Tk(1), Tk(MaxLevel)}

InitPlan ==
    \E candles \in PlanFrames, e13 \in Levels, e21 \in Levels, st \in {29, 70},
       ws \in WsInputs, f \in {"None", "long", "short"} :
        /\ f # "None" => e13 = e21
        /\ \E atr \in AtrInputs(candles) :
              LET row == [CalmRow(2, atr) EXCEPT !.ema13 = Tk(e13), !.ema21 = Tk(e21),
                                                   !.strength = st]
              IN /\ Consistent(candles, row)
                 /\ Start([DefaultArgs EXCEPT !.forced_direction = f],
                          Response("frame", candles, row),
                          [NoPrices EXCEPT !["BTCUSDT"] = ws])

SpecPlan == InitPlan /\ [][Next]_vars

-----------------------------------------------------------------------------
(* calculate_confidence_score called on its own, over the values at and    *)
(* around every threshold it tests.                                        *)

ScoreFvg(level) == [type |-> "Bullish", high |-> level + 100, low |-> level - 100,
                    level |-> level, bar_index |-> 10]

\* entry at 2 levels: FVG level at 0, 0.2 %, 0.5 % and 5 % of the price from it
ScoreSmcInputs ==
    {[relevant_fvg |-> NoFvg, ob_high |-> None, ob_low |-> None]}
    \cup {[relevant_fvg |-> ScoreFvg(Tk(2) + d), ob_high |-> Tk(2), ob_low |-> Tk(1)] :
             d \in {0, 40, 100, 1000}}
    \cup {[relevant_fvg |-> ScoreFvg(Tk(2)), ob_high |-> None, ob_low |-> None]}

\* EMA short against EMA long = 2 levels: spreads of 0, 0.75 % and 2.5 %
ScoreEmaInputs == {NaN, Tk(2) - 500, Tk(2), Tk(2) + 150, Tk(2) + 500}

ScoreMacdInputs == {NaN, -6, -2, 0, 1, 2, 6}

ScoreRsiInputs == {NaN, 29, 30, 40, 60, 61, 70, 71}

ScoreStochInputs ==
    {<<None, None>>, <<50, None>>, <<NaN, 50>>,
     <<10, 5>>, <<10, 50>>, <<25, 50>>, <<50, 40>>, <<50, 60>>,
     <<75, 50>>, <<90, 50>>, <<90, 95>>}

ScoreVolInputs == {None, NaN, 50, 70, 100, 150}

InitScore ==
    \E d \in {"long", "short"}, e13 \in ScoreEmaInputs, m \in ScoreMacdInputs,
       r \in ScoreRsiInputs, st \in ScoreStochInputs, v \in ScoreVolInputs,
       smc \in ScoreSmcInputs, cp \in {Tk(2), 0} :
        /\ cp = 0 => (e13 = Tk(2) /\ m = 0 /\ r = 40 /\ v = None)
        /\ args = DefaultArgs
        /\ provider = Response("none", <<>>, CalmRow(2, 0))
        /\ PRICES = NoPrices
        /\ pc = "score_call"
        /\ raised = ""
        /\ calls = <<>>
        /\ loc = [a |-> [direction |-> d, ema13 |-> e13, ema21 |-> Tk(2),
                         macd_line |-> m, macd_signal |-> 0, rsi |-> r,
                         stoch_k |-> st[1], stoch_d |-> st[2], vol_ratio |-> v,
                         relevant_fvg |-> smc.relevant_fvg, ob_high |-> smc.ob_high,
                         ob_low |-> smc.ob_low, entry_price |-> Tk(2),
                         current_price |-> cp]]
        /\ result = NoResult
        /\ run = 1
        /\ prev = NoPrev
        /\ NoScan

ScoreCall ==
    /\ pc = "score_call"
    /\ result' = calculate_confidence_score(loc.a)
    /\ calls' = Append(calls, "calculate_confidence_score")
    /\ pc' = "returned"
    /\ UNCHANGED <<listener, bybit, tasks, scan, args, provider, PRICES, raised, loc, run, prev>>

SpecScore == InitScore /\ [][ScoreCall]_vars

-----------------------------------------------------------------------------
(* Repeated invocations while the websocket listener updates PRICES        *)
(* (src/ws_prices.py, line 95).                                            *)

MaxRuns == 2

WsUpdate ==
    /\ \E sym \in Symbols, price \in {Tk(1), Tk(MaxLevel)} :
          /\ PRICES[sym] # price
          /\ PRICES' = [PRICES EXCEPT ![sym] = price]
    /\ UNCHANGED <<listener, bybit, tasks, scan, args, provider, pc, raised, calls, loc, result, run, prev>>

\* the caller invokes generate_trade_plan again with the same arguments;
\* the provider returns the same candles
Reinvoke ==
    /\ pc \in {"done", "raised"}
    /\ run < MaxRuns
    /\ prev' = [run |-> run, result |-> result, raised |-> raised,
                ws_price |-> loc.ws_price]
    /\ run' = run + 1
    /\ pc' = "start"
    /\ raised' = ""
    /\ calls' = <<>>
    /\ loc' = LocInit
    /\ result' = NoResult
    /\ UNCHANGED <<listener, bybit, tasks, scan, args, provider, PRICES>>

InitLive ==
    \E candles \in {RangeCandles, GapUpCandles}, e13 \in Levels,
       f \in {"None", "long", "short"}, tf \in {"1h", "7m"}, sym \in {"btc", "eth/usdt"},
       n \in {MIN_CANDLES - 1, MIN_CANDLES} :
        /\ (tf = "7m" \/ n < MIN_CANDLES) => (e13 = 2 /\ f = "None" /\ candles = RangeCandles)
        /\ Start([DefaultArgs EXCEPT !.symbol = sym, !.timeframe = tf, !.forced_direction = f],
                 Response("frame", SubSeq(candles, 1, n),
                          [CalmRow(2, Tk(1)) EXCEPT !.ema13 = Tk(e13)]),
                 NoPrices)

NextLive == Validate \/ Fetch \/ Analyze \/ ReturnNeutral \/ BuildPlan \/ Score
            \/ WsUpdate \/ Reinvoke

SpecLive == InitLive /\ [][NextLive]_vars

-----------------------------------------------------------------------------
(* generate_trade_plan as one call: what a worker thread of the scan       *)
(* command gets back.  The steps are those of Validate, Fetch, Analyze,    *)
(* ReturnNeutral, BuildPlan and Score, composed; only the locals differ    *)
(* from call to call.                                                      *)

AnalyzeLocals(a, resp, ws_price) ==
    LET last == resp.last
        df == resp.candles
        current_price == CurrentPrice(ws_price, LastRow(df).close)
        quality == TrendQuality(last.strength)
        direction == ResolveDirection(last.ema13, last.ema21, last.rsi, quality,
                                      last.divergences, a.forced_direction)
        fvgs == detect_fvg(df)
    IN [LocInit EXCEPT !.symbol = normalize_symbol(a.symbol),
                       !.module = get_exchange_module(a.exchange),
                       !.interval = Interval(get_exchange_module(a.exchange), a.timeframe),
                       !.df = df,
                       !.ws_price = ws_price,
                       !.current_price = current_price,
                       !.atr = AtrValue(last.atr, current_price),
                       !.stoch_k = OptionalValue(last.stoch_k),
                       !.stoch_d = OptionalValue(last.stoch_d),
                       !.vol_ratio = VolRatio(last.volume, last.vol_ema20),
                       !.quality = quality,
                       !.rule_direction = AutoDirection(last.ema13, last.ema21, last.rsi),
                       !.auto_direction =
                           WeakTrendFilter(AutoDirection(last.ema13, last.ema21, last.rsi),
                                           quality, last.divergences),
                       !.direction = direction,
                       !.fvgs = fvgs,
                       !.smc = find_smc_levels(df, fvgs, direction)]

Raises(error) == [raised |-> error, result |-> NoResult]

Returns(value) == [raised |-> "", result |-> value]

generate_trade_plan(a, resp, ws_price) ==
    IF ~TimeframeValid(a.timeframe) THEN Raises("InvalidTimeframe")
    ELSE IF ~TfSupported(get_exchange_module(a.exchange), a.timeframe)
    THEN Raises("UnsupportedTimeframe")
    ELSE IF resp.kind = "raises" THEN Raises("ProviderError")
    ELSE IF Insufficient(resp) THEN Raises("InsufficientData")
    ELSE LET l == AnalyzeLocals(a, resp, ws_price)
         IN IF l.direction = "neutral" THEN Returns(NeutralResult(resp.last, l))
            ELSE LET plan == TradePlan(l.direction, l.df, l.smc, resp.last.ema21,
                                       l.current_price, l.atr, l.quality)
                     lp == [l EXCEPT !.plan = plan]
                 IN IF plan.rr = None THEN Raises("TypeError")
                    ELSE Returns(PlanResult(resp.last, lp,
                             calculate_confidence_score(ScoreArgs(resp.last, lp))))

\* the stepwise pipeline and the single call agree
PipelineIsCall ==
    pc \in {"done", "raised"} =>
        generate_trade_plan(args, provider, loc.ws_price) =
            [raised |-> raised, result |-> result]

-----------------------------------------------------------------------------
(* Pair cache of bybit_data.  PAIRS_CACHE is the module global, disk the   *)
(* cache file when it is present and younger than CACHE_EXPIRY, api the    *)
(* list the instruments endpoint answers with (not known: the requests     *)
(* failed and no pair was collected).  A list is a record                  *)
(* [known, pairs]; known = FALSE stands for None.                          *)

KnownPairs(S) == [known |-> TRUE, pairs |-> S]

\* get_all_pairs: the module state after the call; the list returned is the
\* PAIRS_CACHE of that state
get_all_pairs(b, force_refresh) ==
    IF b.PAIRS_CACHE.known /\ ~force_refresh THEN b
    ELSE IF b.disk.known /\ b.disk.pairs # {} /\ ~force_refresh
    THEN [b EXCEPT !.PAIRS_CACHE = b.disk]
    ELSE IF b.api.known /\ b.api.pairs # {}
    THEN [b EXCEPT !.PAIRS_CACHE = b.api, !.disk = b.api]
    ELSE [b EXCEPT !.PAIRS_CACHE = KnownPairs(IF b.disk.known THEN b.disk.pairs ELSE {})]

\* pair_exists run without interference: [found, state after the call]
pair_exists(b, symbol) ==
    LET b1 == get_all_pairs(b, FALSE)
    IN IF normalize_symbol(symbol) \in b1.PAIRS_CACHE.pairs
       THEN [found |-> TRUE, bybit |-> b1]
       ELSE LET b2 == get_all_pairs(b1, TRUE)
            IN [found |-> normalize_symbol(symbol) \in b2.PAIRS_CACHE.pairs, bybit |-> b2]

PricesGet(prices, sym) == IF sym \in DOMAIN prices THEN prices[sym] ELSE None

-----------------------------------------------------------------------------
(* Scan command (discord_bot.scan_command).  Every setup of every coin is  *)
(* one task run in a worker thread; a task's steps are the points where it *)
(* touches state shared with the other tasks: the pair cache (once in      *)
(* run_scan, once more inside fetch_ohlc, each a lookup and, on a miss, a  *)
(* forced refresh) and the request for candles with the rest of            *)
(* generate_trade_plan.                                                    *)

MAX_SCAN_COINS == 5

SETUPS == <<[timeframe |-> "1h", direction |-> "long"],
            [timeframe |-> "1h", direction |-> "short"],
            [timeframe |-> "4h", direction |-> "long"],
            [timeframe |-> "4h", direction |-> "short"]>>

\* a coin that looks like a parameter of the single-signal command
LooksLikeParameter(coin) ==
    \/ Lower(coin) \in {Lower(t) : t \in VALID_TFS}
    \/ Lower(coin) \in {"long", "short", "detail"}

NoOutcome == [kind |-> "pending"]

RECURSIVE ScanTasks(_)
ScanTasks(coins) ==
    IF coins = <<>> THEN <<>>
    ELSE IF LooksLikeParameter(Head(coins)) THEN ScanTasks(Tail(coins))
    ELSE [i \in 1..Len(SETUPS) |->
             [coin |-> Head(coins), timeframe |-> SETUPS[i].timeframe,
              direction |-> SETUPS[i].direction, pc |-> "exists", out |-> NoOutcome]]
         \o ScanTasks(Tail(coins))

RECURSIVE ScanHints(_)
ScanHints(coins) ==
    IF coins = <<>> THEN <<>>
    ELSE (IF LooksLikeParameter(Head(coins)) THEN <<Head(coins)>> ELSE <<>>)
         \o ScanHints(Tail(coins))

\* coin count check (line 667) and task creation (lines 698-722)
ScanStart ==
    /\ scan.phase = "received"
    /\ IF Len(scan.coins) > MAX_SCAN_COINS
       THEN /\ scan' = [scan EXCEPT !.phase = "rejected"]
            /\ tasks' = tasks
       ELSE /\ scan' = [scan EXCEPT !.phase = "running", !.hints = ScanHints(scan.coins)]
            /\ tasks' = ScanTasks(scan.coins)
    /\ UNCHANGED <<listener, bybit, args, provider, PRICES, pc, raised, calls, loc, result, run, prev>>

TaskArgs(t) == [args EXCEPT !.symbol = normalize_symbol(t.coin),
                            !.timeframe = t.timeframe,
                            !.forced_direction = t.direction]

\* what run_single_scan returns for a finished call
SetupOutcome(t, call) ==
    IF call.raised # "" THEN [kind |-> "error", raised |-> call.raised]
    ELSE [kind |-> "ok", confidence |-> call.result.confidence, result |-> call.result]

Unavailable == [kind |-> "unavailable"]

TaskStep(i, next_pc, out) ==
    tasks' = [tasks EXCEPT ![i] = [@ EXCEPT !.pc = next_pc, !.out = out]]

\* pairs = get_all_pairs(); symbol in pairs   (pair_exists, lines 153-156)
PairLookup(i) ==
    LET t == tasks[i]
        b == get_all_pairs(bybit, FALSE)
        found == normalize_symbol(t.coin) \in b.PAIRS_CACHE.pairs
    IN /\ scan.phase = "running"
       /\ t.pc \in {"exists", "fetch"}
       /\ bybit' = b
       /\ IF found
          THEN TaskStep(i, IF t.pc = "exists" THEN "fetch" ELSE "klines", t.out)
          ELSE TaskStep(i, IF t.pc = "exists" THEN "exists_refresh" ELSE "fetch_refresh",
                        t.out)
       /\ UNCHANGED <<listener, scan, args, provider, PRICES, pc, raised, calls, loc, result, run, prev>>

\* pairs = get_all_pairs(force_refresh=True); found = symbol in pairs
\* (pair_exists, lines 159-165); a miss ends run_scan with None, and inside
\* fetch_ohlc it raises
PairRefresh(i) ==
    LET t == tasks[i]
        b == get_all_pairs(bybit, TRUE)
        found == normalize_symbol(t.coin) \in b.PAIRS_CACHE.pairs
    IN /\ scan.phase = "running"
       /\ t.pc \in {"exists_refresh", "fetch_refresh"}
       /\ bybit' = b
       /\ IF found
          THEN TaskStep(i, IF t.pc = "exists_refresh" THEN "fetch" ELSE "klines", t.out)
          ELSE TaskStep(i, "done",
                        IF t.pc = "exists_refresh" THEN Unavailable
                        ELSE SetupOutcome(t, Raises("ProviderError")))
       /\ UNCHANGED <<listener, scan, args, provider, PRICES, pc, raised, calls, loc, result, run, prev>>

\* the candles arrive and the rest of generate_trade_plan runs
TaskPlan(i) ==
    LET t == tasks[i]
        sym == normalize_symbol(t.coin)
    IN /\ scan.phase = "running"
       /\ t.pc = "klines"
       /\ TaskStep(i, "done",
                   SetupOutcome(t, generate_trade_plan(TaskArgs(t),
                                                       provider[<<sym, t.timeframe>>],
                                                       PricesGet(PRICES, sym))))
       /\ UNCHANGED <<listener, bybit, scan, args, provider, PRICES, pc, raised, calls, loc, result,
                      run, prev>>

\* results of one coin in task order (lines 757-765)
CoinResults(coin) ==
    SelectSeq(tasks, LAMBDA t : t.coin = coin /\ t.out.kind = "ok")

\* max(results, key=confidence): the first of the highest
RECURSIVE BestOf(_, _)
BestOf(results, best) ==
    IF results = <<>> THEN best
    ELSE BestOf(Tail(results),
                IF Head(results).out.confidence > best.out.confidence
                THEN Head(results) ELSE best)

\* variant: the first successful setup is reported
CoinReportFirst(coin) ==
    LET results == CoinResults(coin)
    IN IF results = <<>> THEN [kind |-> "error", coin |-> coin]
       ELSE LET best == Head(results)
            IN [kind |-> "result", coin |-> coin, confidence |-> best.out.confidence,
                timeframe |-> best.timeframe, direction |-> best.direction,
                data |-> best.out.result]

CoinReport(coin) ==
    LET results == CoinResults(coin)
    IN IF results = <<>> THEN [kind |-> "error", coin |-> coin]
       ELSE LET best == BestOf(Tail(results), Head(results))
            IN [kind |-> "result", coin |-> coin, confidence |-> best.out.confidence,
                timeframe |-> best.timeframe, direction |-> best.direction,
                data |-> best.out.result]

\* after gather: one message per coin of the request (lines 767-783)
ScanReport ==
    /\ scan.phase = "running"
    /\ \A i \in 1..Len(tasks) : tasks[i].pc = "done"
    /\ scan' = [scan EXCEPT !.phase = "reported",
                            !.report = [k \in 1..Len(scan.coins) |-> CoinReport(scan.coins[k])]]
    /\ UNCHANGED <<listener, bybit, tasks, args, provider, PRICES, pc, raised, calls, loc, result,
                   run, prev>>

\* run_scan of one setup with no other task running (lines 728-734)
run_scan(t, b, responses, prices) ==
    LET sym == normalize_symbol(t.coin)
        first == pair_exists(b, sym)
        second == pair_exists(first.bybit, sym)
    IN IF ~first.found THEN Unavailable
       ELSE IF ~second.found THEN SetupOutcome(t, Raises("ProviderError"))
       ELSE SetupOutcome(t, generate_trade_plan(TaskArgs(t), responses[<<sym, t.timeframe>>],
                                                PricesGet(prices, sym)))

ScanSymbols == {"BTCUSDT", "ETHUSDT", "XYZUSDT"}

Listed == {"BTCUSDT", "ETHUSDT"}

UpResponse == Response("frame", GapUpCandles, [CalmRow(2, Tk(1)) EXCEPT !.ema13 = Tk(MaxLevel)])

DownResponse == Response("frame", GapDownCandles, [CalmRow(2, Tk(1)) EXCEPT !.ema13 = Tk(1)])

FlatResponse == Response("frame", RangeCandles, CalmRow(2, Tk(1)))

ShortResponse == Response("frame", SubSeq(RangeCandles, 1, MIN_CANDLES - 1), CalmRow(2, Tk(1)))

ErrorResponse == Response("raises", <<>>, CalmRow(2, 0))

ScanArgs == [DefaultArgs EXCEPT !.symbol = "", !.forced_direction = "None"]

StartScan(coins, b, responses, prices) ==
    /\ args = ScanArgs
    /\ provider = responses
    /\ PRICES = prices
    /\ pc = "idle"
    /\ raised = ""
    /\ calls = <<>>
    /\ loc = LocInit
    /\ result = NoResult
    /\ run = 1
    /\ prev = NoPrev
    /\ bybit = b
    /\ tasks = <<>>
    /\ scan = [phase |-> "received", coins |-> coins, hints |-> <<>>, report |-> <<>>,
               bybit_at_start |-> b]
    /\ listener = NoListener

Responses(r1, r4) ==
    [k \in ScanSymbols \X {"1h", "4h"} |-> IF k[2] = "1h" THEN r1 ELSE r4]

\* one coin, alone or among parameter-like words, or too many coins; either
\* the pair cache or the candles vary
InitScanOne ==
    \E coins \in {<<"BTC">>, <<"XYZ">>, <<"BTC", "LONG", "1H", "DETAIL", "SHORT">>,
                  <<"BTC", "ETH", "XYZ", "BTC", "ETH", "XYZ">>},
       cache \in {NoCache, KnownPairs(Listed), KnownPairs({})},
       disk \in {NoCache, KnownPairs(Listed)},
       api \in {NoCache, KnownPairs(Listed), KnownPairs(ScanSymbols), KnownPairs({"ETHUSDT"})},
       r1 \in {UpResponse, DownResponse, ErrorResponse},
       r4 \in {UpResponse, FlatResponse, ShortResponse, ErrorResponse},
       ws \in {None, Tk(1)} :
        /\ \/ r1 = UpResponse /\ r4 = UpResponse /\ ws = None
           \/ /\ Len(coins) <= MAX_SCAN_COINS
              /\ cache = KnownPairs(Listed) /\ disk = NoCache /\ api = NoCache
        /\ StartScan(coins, [PAIRS_CACHE |-> cache, disk |-> disk, api |-> api],
                     Responses(r1, r4), [NoPrices EXCEPT !["BTCUSDT"] = ws])

\* two coins scanned together, one of them unknown to the exchange; the
\* cache file is fresh
InitScanTwo ==
    StartScan(<<"XYZ", "BTC">>,
              [PAIRS_CACHE |-> KnownPairs(Listed), disk |-> KnownPairs(Listed),
               api |-> NoCache],
              Responses(UpResponse, DownResponse), NoPrices)

InitScan == InitScanOne \/ InitScanTwo

NextScan ==
    \/ ScanStart
    \/ \E i \in 1..Len(tasks) : PairLookup(i)
    \/ \E i \in 1..Len(tasks) : PairRefresh(i)
    \/ \E i \in 1..Len(tasks) : TaskPlan(i)
    \/ ScanReport

SpecScan == InitScan /\ [][NextScan]_vars

\* the same two coins after the cache file has expired, the instruments
\* endpoint failing
InitScanExpired ==
    StartScan(<<"XYZ", "BTC">>,
              [PAIRS_CACHE |-> KnownPairs(Listed), disk |-> NoCache, api |-> NoCache],
              Responses(UpResponse, DownResponse), NoPrices)

SpecScanExpired == InitScanExpired /\ [][NextScan]_vars

-----------------------------------------------------------------------------
(* Plans on frames whose gap is old: the first three candles vary, the     *)
(* rest of the frame, the last SWING_LOOKBACK candles included, is flat.   *)

OldGapFrame(c0, c1, c2, base) ==
    [i \in 1..MIN_CANDLES |-> IF i = 1 THEN c0 ELSE IF i = 2 THEN c1
                              ELSE IF i = 3 THEN c2 ELSE base]

OldGapFrames == {OldGapFrame(c0, Candle(1, MaxLevel, 2), c2, base) :
                    <<c0, c2, base>> \in {t \in Candles \X Candles \X PlanBases :
                                             t[1].close = t[1].high /\ t[2].close = t[2].low}}

InitOldGap ==
    \E candles \in OldGapFrames, e \in Levels, f \in {"None", "long", "short"},
       ws \in {None, Tk(2)} :
        \E atr \in AtrInputs(candles) :
            LET row == [CalmRow(2, atr) EXCEPT !.ema13 = Tk(e)]
            IN /\ Consistent(candles, row)
               /\ Start([DefaultArgs EXCEPT !.forced_direction = f],
                        Response("frame", candles, row),
                        [NoPrices EXCEPT !["BTCUSDT"] = ws])

SpecOldGap == InitOldGap /\ [][Next]_vars

-----------------------------------------------------------------------------
(* Plans entered at a live price that lies between two candle levels *)

LivePriceInputs == {None, 167 * 100, 233 * 100}

InitLivePrice ==
    \E candles \in {RangeCandles, GapUpCandles, GapDownCandles}, e13 \in Levels,
       st \in {29, 70}, f \in {"None", "long", "short"}, ws \in LivePriceInputs,
       atr \in {AtrSmall, Tk(1)} :
        LET row == [CalmRow(2, atr) EXCEPT !.ema13 = Tk(e13), !.strength = st]
        IN /\ Consistent(candles, row)
           /\ Start([DefaultArgs EXCEPT !.forced_direction = f],
                    Response("frame", candles, row),
                    [NoPrices EXCEPT !["BTCUSDT"] = ws])

SpecLivePrice == InitLivePrice /\ [][Next]_vars

-----------------------------------------------------------------------------
(* detect_fvg called on its own, on every short frame *)

MaxFrameLen == 4

\* candles with low <= high; detect_fvg reads nothing else
GapCandles == {Candle(l, h, l) : <<l, h>> \in {t \in Levels \X Levels : t[1] <= t[2]}}

RECURSIVE FramesOf(_, _)
FramesOf(S, n) ==
    IF n = 0 THEN {<<>>}
    ELSE {Append(f, c) : f \in FramesOf(S, n - 1), c \in S}

InitFvg ==
    \E n \in 0..MaxFrameLen : \E df \in FramesOf(GapCandles, n) :
        /\ args = DefaultArgs
        /\ provider = Response("frame", df, CalmRow(2, 0))
        /\ PRICES = NoPrices
        /\ pc = "fvg_call"
        /\ raised = ""
        /\ calls = <<>>
        /\ loc = [LocInit EXCEPT !.df = df]
        /\ result = NoResult
        /\ run = 1
        /\ prev = NoPrev
        /\ NoScan

FvgCall ==
    /\ pc = "fvg_call"
    /\ result' = [fvgs |-> detect_fvg(loc.df)]
    /\ calls' = Append(calls, "detect_fvg")
    /\ pc' = "returned"
    /\ UNCHANGED <<listener, bybit, tasks, scan, args, provider, PRICES, raised, loc, run, prev>>

SpecFvg == InitFvg /\ [][FvgCall]_vars

-----------------------------------------------------------------------------
(* Stochastic columns: the oscillator is computed inside a try block       *)
(* (lines 427-434); when it raises, both columns are filled with NaN.  A   *)
(* column can also hold NaN in its last row alone.                         *)

StochColumns == {<<NaN, NaN>>, <<50, NaN>>, <<NaN, 50>>, <<10, 5>>, <<50, 50>>, <<90, 95>>}

InitStoch ==
    \E candles \in {RangeCandles, GapUpCandles}, e13 \in Levels, st \in StochColumns,
       f \in {"None", "long", "short"} :
        LET row == [CalmRow(2, Tk(1)) EXCEPT !.ema13 = Tk(e13),
                                               !.stoch_k = st[1], !.stoch_d = st[2]]
        IN Start([DefaultArgs EXCEPT !.forced_direction = f],
                 Response("frame", candles, row), NoPrices)

SpecStoch == InitStoch /\ [][Next]_vars

-----------------------------------------------------------------------------
(* find_smc_levels on the gaps detect_fvg finds in short frames; the last  *)
(* candle's close varies within its range.                                 *)

InitSmc ==
    \E n \in 0..(MaxFrameLen - 1) : \E head \in FramesOf(GapCandles, n) :
        \E last \in Candles, d \in {"long", "short"} :
            /\ args = DefaultArgs
            /\ provider = Response("frame", Append(head, last), CalmRow(2, 0))
            /\ PRICES = NoPrices
            /\ pc = "smc_call"
            /\ raised = ""
            /\ calls = <<>>
            /\ loc = [LocInit EXCEPT !.df = Append(head, last), !.direction = d]
            /\ result = NoResult
            /\ run = 1
            /\ prev = NoPrev
            /\ NoScan

\* fvgs = detect_fvg(df); find_smc_levels(df, fvgs, direction)  (lines 489-491)
SmcCall ==
    /\ pc = "smc_call"
    /\ result' = [fvgs |-> detect_fvg(loc.df),
                  smc |-> find_smc_levels(loc.df, detect_fvg(loc.df), loc.direction)]
    /\ calls' = calls \o <<"detect_fvg", "find_smc_levels">>
    /\ pc' = "returned"
    /\ UNCHANGED <<listener, bybit, tasks, scan, args, provider, PRICES, raised, loc, run, prev>>

SpecSmc == InitSmc /\ [][SmcCall]_vars

-----------------------------------------------------------------------------
(* Last-row ATR values: NaN, zero and positive, whatever the candles are;  *)
(* the live price is absent, zero or one level.                            *)

AtrColumn == {NaN, 0, AtrSmall, Tk(1)}

InitAtr ==
    \E candles \in {RangeCandles, GapUpCandles, Frame(MIN_CANDLES, Candle(2, 2, 2),
                                                      Candle(2, 2, 2), Candle(2, 2, 2))},
       atr \in AtrColumn, e13 \in Levels, ws \in {None, 0, Tk(1)},
       f \in {"None", "long", "short"} :
        Start([DefaultArgs EXCEPT !.forced_direction = f],
              Response("frame", candles, [CalmRow(2, atr) EXCEPT !.ema13 = Tk(e13)]),
              [NoPrices EXCEPT !["BTCUSDT"] = ws])

SpecAtr == InitAtr /\ [][Next]_vars

-----------------------------------------------------------------------------
(* A quiet market: fifty candles ranging over 0.7 % of the price, the ATR  *)
(* a fraction of that range, the live price inside the range.  Prices are  *)
(* around 1e-5 so that the products stay below 2^31.                       *)

QuietLow == 998 * 1000

QuietHigh == 1005 * 1000

QuietCloses == {QuietLow, 1000 * 1000, QuietHigh}

QuietLivePrices == {None, 1000 * 1000, 1003 * 1000}

QuietAtrs == {1000, 5000}

InitQuiet ==
    \E close \in QuietCloses, ws \in QuietLivePrices, atr \in QuietAtrs,
       e21 \in {1000 * 1000, 1004 * 1000}, spread \in {-1000, 0, 1000},
       f \in {"None", "long", "short"} :
        LET candle == [low |-> QuietLow, high |-> QuietHigh, close |-> close]
            row == [CalmRow(2, atr) EXCEPT !.ema13 = e21 + spread, !.ema21 = e21]
        IN Start([DefaultArgs EXCEPT !.forced_direction = f],
                 Response("frame", Frame(MIN_CANDLES, candle, candle, candle), row),
                 [NoPrices EXCEPT !["BTCUSDT"] = ws])

SpecQuiet == InitQuiet /\ [][Next]_vars

-----------------------------------------------------------------------------
(* The pair cache of an exchange module called directly: get_all_pairs and *)
(* pair_exists in any order, while the instruments endpoint may start to   *)
(* fail and the cache file may pass its expiry (bybit_data.py, lines       *)
(* 36-173; binance_data.py has the same code).                             *)

MaxCalls == 3

InitPairs ==
    \E cache \in {NoCache, KnownPairs(Listed), KnownPairs({"BTCUSDT"})},
       disk \in {NoCache, KnownPairs(Listed)},
       api \in {NoCache, KnownPairs(Listed), KnownPairs(ScanSymbols)} :
        /\ args = ScanArgs
        /\ provider = Response("none", <<>>, CalmRow(2, 0))
        /\ PRICES = NoPrices
        /\ pc = "pairs"
        /\ raised = ""
        /\ calls = <<>>
        /\ loc = LocInit
        /\ result = NoResult
        /\ run = 1
        /\ prev = NoPrev
        /\ bybit = [PAIRS_CACHE |-> cache, disk |-> disk, api |-> api]
        /\ tasks = <<>>
        /\ scan = [phase |-> "idle"]
        /\ listener = NoListener

ApiAnswers(b) == b.api.known /\ b.api.pairs # {}

GetAllPairsCall ==
    /\ pc = "pairs"
    /\ Len(calls) < MaxCalls
    /\ \E force_refresh \in BOOLEAN :
          /\ bybit' = get_all_pairs(bybit, force_refresh)
          /\ result' = [call |-> "get_all_pairs", force_refresh |-> force_refresh,
                        before |-> bybit.PAIRS_CACHE, api_answered |-> ApiAnswers(bybit),
                        returned |-> get_all_pairs(bybit, force_refresh).PAIRS_CACHE.pairs]
    /\ calls' = Append(calls, "get_all_pairs")
    /\ UNCHANGED <<listener, tasks, scan, args, provider, PRICES, pc, raised, loc, run, prev>>

PairExistsCall ==
    /\ pc = "pairs"
    /\ Len(calls) < MaxCalls
    /\ \E symbol \in {"btc", "xyz"} :
          /\ bybit' = pair_exists(bybit, symbol).bybit
          /\ result' = [call |-> "pair_exists", symbol |-> symbol,
                        before |-> bybit.PAIRS_CACHE, api_answered |-> ApiAnswers(bybit),
                        returned |-> pair_exists(bybit, symbol).found]
    /\ calls' = Append(calls, "pair_exists")
    /\ UNCHANGED <<listener, tasks, scan, args, provider, PRICES, pc, raised, loc, run, prev>>

\* the instruments endpoint stops answering
ApiFails ==
    /\ pc = "pairs"
    /\ bybit.api.known
    /\ bybit' = [bybit EXCEPT !.api = NoCache]
    /\ UNCHANGED <<listener, tasks, scan, args, provider, PRICES, pc, raised, calls, loc, result,
                   run, prev>>

\* the cache file becomes older than CACHE_EXPIRY
CacheFileExpires ==
    /\ pc = "pairs"
    /\ bybit.disk.known
    /\ bybit' = [bybit EXCEPT !.disk = NoCache]
    /\ UNCHANGED <<listener, tasks, scan, args, provider, PRICES, pc, raised, calls, loc, result,
                   run, prev>>

NextPairs == GetAllPairsCall \/ PairExistsCall \/ ApiFails \/ CacheFileExpires

SpecPairs == InitPairs /\ [][NextPairs]_vars

-----------------------------------------------------------------------------
(* The exchange and the timeframe vary over everything the bot accepts     *)
(* (discord_bot.py, lines 107-121).                                        *)

ACCEPTED_EXCHANGES == {"bybit", "binance", "bitget", "gateio"}

InitExchange ==
    \E exchange \in ACCEPTED_EXCHANGES, tf \in VALID_TFS, e13 \in Levels,
       f \in {"None", "long"} :
        Start([DefaultArgs EXCEPT !.exchange = exchange, !.timeframe = tf,
                                  !.forced_direction = f],
              Response("frame", RangeCandles, [CalmRow(2, Tk(1)) EXCEPT !.ema13 = Tk(e13)]),
              NoPrices)

SpecExchange == InitExchange /\ [][Next]_vars

(***************************************************************************)
(* The websocket listener (src/ws_prices.py, _listen, lines 29-128).       *)
(* One action per stretch of the coroutine between two suspension points.  *)
(* Seconds are kept in fixed point, BackoffUnit parts to the second, so    *)
(* that every product by 1.5 the loop can form before the cap is exact.    *)
(***************************************************************************)
BackoffUnit == 2 ^ 12

Secs(n) == n * BackoffUnit

max_backoff == 120

SILENCE_LIMIT == 120

Min(x, y) == IF x < y THEN x ELSE y

\* variant of NextBackoff without the cap of max_backoff
NextBackoffUncapped(backoff, connected_before, long_silence) ==
    IF connected_before /\ ~long_silence THEN (backoff * 3) \div 2 ELSE backoff * 2

\* lines 114-122: the wait that follows a closed or failed connection
NextBackoff(backoff, connected_before, long_silence) ==
    IF connected_before
    THEN IF long_silence
         THEN Min(backoff * 2, Secs(max_backoff))
         ELSE Min((backoff * 3) \div 2, Secs(max_backoff))
    ELSE Min(backoff * 2, Secs(max_backoff))

InitWs ==
    /\ args = ScanArgs
    /\ provider = Response("none", <<>>, CalmRow(2, 0))
    /\ PRICES = NoPrices
    /\ pc = "idle"
    /\ raised = ""
    /\ calls = <<>>
    /\ loc = LocInit
    /\ result = NoResult
    /\ run = 1
    /\ prev = NoPrev
    /\ bybit = [PAIRS_CACHE |-> NoCache, disk |-> NoCache, api |-> NoCache]
    /\ tasks = <<>>
    /\ scan = [phase |-> "idle"]
    /\ listener = [pc |-> "loop", backoff |-> Secs(1), SHOULD_RUN |-> TRUE,
                   LAST_MESSAGE_TIME |-> None]

ListenerUnchanged ==
    UNCHANGED <<args, provider, PRICES, pc, raised, calls, loc, result, run, prev,
                bybit, tasks, scan>>

\* line 34: while SHOULD_RUN; line 42 opens the connection in the same
\* stretch, the coroutine is not suspended between the test and the call
ListenLoop ==
    /\ listener.pc = "loop"
    /\ listener' = [listener EXCEPT !.pc = IF listener.SHOULD_RUN THEN "connecting"
                                                              ELSE "stopped"]
    /\ ListenerUnchanged

\* lines 42-48 raise: the handshake fails or times out
ConnectFails ==
    /\ listener.pc = "connecting"
    /\ listener' = [listener EXCEPT !.pc = "closed"]
    /\ ListenerUnchanged

\* lines 49-51: connected, LAST_MESSAGE_TIME = datetime.now()
Connected ==
    /\ listener.pc = "connecting"
    /\ listener' = [listener EXCEPT !.pc = "connected", !.LAST_MESSAGE_TIME = 0]
    /\ ListenerUnchanged

\* lines 52-53: the subscription is sent and backoff = 1
Subscribed ==
    /\ listener.pc = "connected"
    /\ listener' = [listener EXCEPT !.pc = "listening", !.backoff = Secs(1)]
    /\ ListenerUnchanged

\* line 52 raises: the connection closes while the subscription is sent
SubscribeFails ==
    /\ listener.pc = "connected"
    /\ listener' = [listener EXCEPT !.pc = "closed"]
    /\ ListenerUnchanged

\* lines 55-98: a message arrives; a ticker message with a price updates
\* PRICES (line 95), every message renews LAST_MESSAGE_TIME (line 57)
Message ==
    /\ listener.pc = "listening"
    /\ \/ \E sym \in Symbols, price \in {Tk(1), Tk(MaxLevel)} :
             PRICES' = [PRICES EXCEPT ![sym] = price]
       \/ UNCHANGED PRICES
    /\ listener' = [listener EXCEPT !.LAST_MESSAGE_TIME = 0]
    /\ UNCHANGED <<args, provider, pc, raised, calls, loc, result, run, prev,
                   bybit, tasks, scan>>

\* lines 56-110: the iteration over messages ends or raises
Disconnect ==
    /\ listener.pc = "listening"
    /\ listener' = [listener EXCEPT !.pc = "closed"]
    /\ ListenerUnchanged

\* seconds since the last message as line 115 may read them: 0 stands for
\* the time of the last message
SilenceDurations == {1, SILENCE_LIMIT, SILENCE_LIMIT + 1}

\* lines 112-128: with SHOULD_RUN set, the new backoff and the sleep;
\* otherwise straight back to the loop test
Backoff ==
    /\ listener.pc = "closed"
    /\ \E now \in SilenceDurations :
          listener' =
             IF listener.SHOULD_RUN
             THEN [listener EXCEPT !.pc = "sleeping",
                      !.backoff = NextBackoff(listener.backoff,
                                     listener.LAST_MESSAGE_TIME # None,
                                     listener.LAST_MESSAGE_TIME # None
                                     /\ now - listener.LAST_MESSAGE_TIME > SILENCE_LIMIT)]
             ELSE [listener EXCEPT !.pc = "loop"]
    /\ ListenerUnchanged

\* line 128: asyncio.sleep(backoff + jitter) returns
Wake ==
    /\ listener.pc = "sleeping"
    /\ listener' = [listener EXCEPT !.pc = "loop"]
    /\ ListenerUnchanged

\* line 169: SHOULD_RUN = False
Stop ==
    /\ listener.pc \notin {"off", "stopped"}
    /\ listener.SHOULD_RUN
    /\ listener' = [listener EXCEPT !.SHOULD_RUN = FALSE]
    /\ ListenerUnchanged

NextWs ==
    \/ ListenLoop
    \/ ConnectFails
    \/ Connected
    \/ Subscribed
    \/ SubscribeFails
    \/ Message
    \/ Disconnect
    \/ Backoff
    \/ Wake
    \/ Stop

SpecWs == InitWs /\ [][NextWs]_vars

-----------------------------------------------------------------------------
(* Properties *)

Called(name) == \E i \in 1..Len(calls) : calls[i] = name

Directional == loc.direction \in {"long", "short"}

Returned == pc = "done"

PlanBuilt == Directional /\ loc.plan.stop # None

\* C1: every plan that has been built, and so every non-neutral result
\* returned, has |entry - stop_loss| > 0 after the stop derivation, the
\* safety clamp and the degenerate-risk re-derivation.
C1_RiskPositive ==
    PlanBuilt =>
        /\ Abs(loc.plan.entry_price - loc.plan.stop) > 0
        /\ Returned => /\ result.entry = loc.plan.entry_price
                       /\ result.stop_loss = loc.plan.stop
                       /\ Abs(result.entry - result.stop_loss) > 0

\* an auto-resolved plan was returned whose stop had to be re-derived
C1_Witness ==
    /\ Returned /\ Directional
    /\ args.forced_direction = "None"
    /\ loc.plan.stop # loc.plan.stop_clamped

\* C2: calculate_confidence_score returns an integer in 0..100, the sum of
\* the rule contributions clamped after summation.
C2_ConfidenceBounded ==
    pc = "returned" =>
        /\ result.score \in 0..100
        /\ result.score = (IF result.raw < 0 THEN 0
                           ELSE IF result.raw > 100 THEN 100 ELSE result.raw)

\* the contributions summed below zero with stochastic and volume unavailable
C2_Witness ==
    /\ pc = "returned"
    /\ result.raw < 0 /\ result.score = 0
    /\ loc.a.stoch_k = None /\ loc.a.vol_ratio = None

\* C3: the resolved direction is one of long, short, neutral, and a forced
\* 'long' or 'short' is the resolved direction whatever the indicators say.
C3_ForcedWins ==
    loc.direction # "" =>
        /\ loc.direction \in {"long", "short", "neutral"}
        /\ args.forced_direction \in {"long", "short"}
              => loc.direction = args.forced_direction

\* forced long against falling EMAs in a weak trend without divergence
C3_Witness ==
    /\ Returned
    /\ args.forced_direction = "long"
    /\ provider.last.ema13 < provider.last.ema21
    /\ loc.quality = "WEAK"
    /\ provider.last.divergences = NoDivergence
    /\ result.direction = "LONG"

\* C4: in every non-neutral result tp1 = entry +/- 1.5 x |entry - stop_loss|
\* (+ for long, - for short), with the stop that is returned.
C4_Tp1Consistent ==
    (Returned /\ Directional) =>
        LET risk3 == 3 * Abs(result.entry - result.stop_loss)
        IN IF result.direction = "LONG"
           THEN 2 * result.tp1 = 2 * result.entry + risk3
           ELSE 2 * result.tp1 = 2 * result.entry - risk3

\* a short plan was returned whose stop was re-derived after the clamp
C4_Witness ==
    /\ Returned /\ loc.direction = "short"
    /\ loc.plan.stop_natural # loc.plan.stop_clamped
    /\ loc.plan.stop_clamped # loc.plan.stop

\* C5: the returned stop is strictly below entry for long and strictly above
\* it for short, and when the derived stop was not on the risk side it lies
\* at least max(1.5 x ATR, 1 % x entry) from entry.
C5_StopOnRiskSide ==
    (Returned /\ Directional) =>
        LET entry == result.entry
            stop == result.stop_loss
            wrong_side == IF loc.direction = "long" THEN loc.plan.stop_natural >= entry
                          ELSE loc.plan.stop_natural <= entry
        IN /\ loc.direction = "long" => stop < entry
           /\ loc.direction = "short" => stop > entry
           /\ wrong_side => /\ 10 * Abs(entry - stop) >= 15 * result.atr
                            /\ 100 * Abs(entry - stop) >= entry

\* a long plan was returned whose derived stop lay above the entry
C5_Witness ==
    /\ Returned /\ loc.direction = "long"
    /\ loc.plan.stop_natural >= loc.plan.entry_price
    /\ loc.plan.stop_clamped < loc.plan.entry_price

\* C6: with no forced direction, a long (short) EMA/RSI verdict in a WEAK
\* trend becomes neutral unless a bullish (bearish) RSI or MACD divergence is
\* flagged; in any other trend quality the verdict is kept.
C6_WeakTrendFilter ==
    (loc.direction # "" /\ args.forced_direction = "None") =>
        LET last == provider.last
            rule == IF last.ema13 > last.ema21 /\ last.rsi < 70 THEN "long"
                    ELSE IF last.ema13 < last.ema21 /\ last.rsi > 30 THEN "short"
                    ELSE "neutral"
            bull == last.divergences.rsi_bull \/ last.divergences.macd_bull
            bear == last.divergences.rsi_bear \/ last.divergences.macd_bear
        IN IF loc.quality = "WEAK" /\ rule = "long"
           THEN loc.direction = (IF bull THEN "long" ELSE "neutral")
           ELSE IF loc.quality = "WEAK" /\ rule = "short"
           THEN loc.direction = (IF bear THEN "short" ELSE "neutral")
           ELSE loc.direction = rule

\* a weak uptrend kept long by a bullish MACD divergence alone
C6_Witness ==
    /\ Returned
    /\ args.forced_direction = "None"
    /\ loc.quality = "WEAK"
    /\ provider.last.divergences.macd_bull /\ ~provider.last.divergences.rsi_bull
    /\ result.direction = "LONG"

\* C7: once the provider has answered, the insufficient-data error is raised,
\* and no plan returned, exactly when the answer is None, empty or shorter
\* than 50 candles.
C7_InsufficientData ==
    (Called("fetch_ohlc") /\ provider.kind # "raises") =>
        /\ (raised = "InsufficientData")
              = (provider.kind = "none" \/ Len(provider.candles) < 50)
        /\ raised = "InsufficientData" => (pc = "raised" /\ result = NoResult)

\* 49 candles were refused
C7_Witness ==
    /\ provider.kind = "frame" /\ Len(provider.candles) = 49
    /\ raised = "InsufficientData"

\* C8: a neutral direction returns the reduced result, without entry,
\* stop_loss, tp1, tp2, rr or confidence, and the invocation computes no
\* swing point, stop, target or confidence score.
C8_NeutralReduced ==
    loc.direction = "neutral" =>
        /\ ~Called("find_swing_points") /\ ~Called("calculate_rr")
        /\ ~Called("calculate_confidence_score")
        /\ loc.plan = NoPlan /\ loc.conf = NoConf
        /\ pc \in {"branch", "done"}
        /\ Returned =>
              /\ result.direction = "neutral"
              /\ DOMAIN result \cap {"entry", "stop_loss", "tp1", "tp2", "rr",
                                      "confidence"} = {}
              /\ {"direction", "insight", "rsi", "macd_line", "macd_signal"}
                    \subseteq DOMAIN result

\* a neutral result was returned although a bullish gap was detected
C8_Witness ==
    /\ Returned /\ loc.direction = "neutral"
    /\ loc.fvgs # <<>>

\* C9 as claimed: every timeframe outside the enumeration is refused before
\* the provider is asked.
C9_Original ==
    (pc # "start" /\ args.timeframe \notin VALID_TFS) =>
        (raised = "InvalidTimeframe" /\ ~Called("fetch_ohlc"))

\* C9 amended: a timeframe that matches no supported value when case is
\* ignored is refused with the invalid-timeframe error before the provider
\* is asked.
C9_InvalidTimeframe ==
    (pc # "start" /\ \A t \in VALID_TFS : Lower(t) # Lower(args.timeframe)) =>
        (raised = "InvalidTimeframe" /\ pc = "raised" /\ ~Called("fetch_ohlc"))

\* '7m' was refused
C9_Witness ==
    /\ args.timeframe = "7m"
    /\ raised = "InvalidTimeframe"

C11_Isolated ==
    \A i \in 1..Len(tasks) :
        (tasks[i].pc = "done" /\ tasks[i].out.kind # "unavailable") =>
            tasks[i].out = run_scan(tasks[i], scan.bybit_at_start, provider, PRICES)

\* C12: detect_fvg returns, in ascending bar_index order, exactly one entry
\* for each index i >= 2 with low[i] > high[i-2] (Bullish, low = high[i-2],
\* high = low[i]) or high[i] < low[i-2] (Bearish, high = low[i-2],
\* low = high[i]), level the midpoint of the gap, and nothing else; replacing
\* the middle candle i-1 leaves the entry at i as it is.
C12_DetectFvg ==
    pc = "returned" =>
        LET df == loc.df
            r == result.fvgs
            low(i) == df[i + 1].low
            high(i) == df[i + 1].high
            bullish(i) == low(i) > high(i - 2)
            bearish(i) == high(i) < low(i - 2)
            At(s, i) == {k \in 1..Len(s) : s[k].bar_index = i}
            Replaced(i, c) == [df EXCEPT ![i + 1] = c]
        IN /\ \A j, k \in 1..Len(r) : j < k => r[j].bar_index < r[k].bar_index
           /\ \A k \in 1..Len(r) : r[k].bar_index \in 2..(Len(df) - 1)
           /\ \A i \in 2..(Len(df) - 1) :
                 /\ Cardinality(At(r, i)) = (IF bullish(i) \/ bearish(i) THEN 1 ELSE 0)
                 /\ \A k \in At(r, i) :
                       /\ bullish(i) => /\ r[k].type = "Bullish"
                                        /\ r[k].low = high(i - 2) /\ r[k].high = low(i)
                       /\ (~bullish(i) /\ bearish(i)) =>
                                        /\ r[k].type = "Bearish"
                                        /\ r[k].high = low(i - 2) /\ r[k].low = high(i)
                       /\ 2 * r[k].level = r[k].low + r[k].high
                 /\ \A c \in GapCandles :
                       LET other == detect_fvg(Replaced(i - 1, c))
                       IN {other[k] : k \in At(other, i)} = {r[k] : k \in At(r, i)}

\* a Bullish gap at bar 2 followed by an overlapping Bearish gap at bar 3
C12_Witness ==
    /\ pc = "returned"
    /\ Len(result.fvgs) = 2
    /\ result.fvgs[1].type = "Bullish" /\ result.fvgs[1].bar_index = 2
    /\ result.fvgs[2].type = "Bearish" /\ result.fvgs[2].bar_index = 3

\* C13: a long plan entered at a relevant Bullish FVG that has its Order
\* Block has entry = the FVG low and its returned stop below the Order Block
\* low; a short plan entered at a Bearish FVG has entry = the FVG high and its
\* stop above the Order Block high.
C13_StopBeyondOrderBlock ==
    (Returned /\ Directional /\ loc.smc.relevant_fvg.type # "None"
        /\ loc.smc.ob_low # None) =>
        IF loc.direction = "long"
        THEN /\ result.entry = loc.smc.relevant_fvg.low
             /\ result.stop_loss < loc.smc.ob_low
        ELSE /\ result.entry = loc.smc.relevant_fvg.high
             /\ result.stop_loss > loc.smc.ob_high

\* C14: in every non-neutral result tp2 is either the 50-candle extreme
\* moved 1 % inside (highest high x 0.99 for long, lowest low x 1.01 for
\* short), and then its reward is at least 1.5 x risk, or entry +/- risk x R
\* with R = 3.0 for a STRONG or VERY STRONG trend and 2.5 otherwise; hence
\* |tp2 - entry| >= 1.5 x |entry - stop_loss|.
C14_Tp2Reward ==
    (Returned /\ Directional) =>
        LET df == loc.df
            first == Max2(1, Len(df) - 49)
            long == loc.direction = "long"
            extreme == IF long THEN MaxHigh(df, first, Len(df))
                       ELSE MinLow(df, first, Len(df))
            target == IF long THEN (extreme * 99) \div 100 ELSE (extreme * 101) \div 100
            risk == Abs(result.entry - result.stop_loss)
            reward == IF long THEN result.tp2 - result.entry
                      ELSE result.entry - result.tp2
            R10 == IF loc.quality \in {"STRONG", "VERY STRONG"} THEN 30 ELSE 25
        IN /\ \/ result.tp2 = target /\ 10 * reward >= 15 * risk
              \/ 10 * reward = R10 * risk
           /\ 10 * Abs(result.tp2 - result.entry) >= 15 * risk

\* C15 as claimed: with a relevant FVG and the matching Order Block bound
\* entry is the FVG low (long) or high (short); otherwise entry is the long
\* EMA when the current price is near it (within 0.5 %) and the current
\* price when it is not.
C15_Original ==
    (Returned /\ Directional) =>
        LET fvg == loc.smc.relevant_fvg
            long == loc.direction = "long"
            bound == IF long THEN loc.smc.ob_low ELSE loc.smc.ob_high
            ema == provider.last.ema21
            cp == loc.current_price
            near == 1000 * Abs(cp - ema) <= 5 * ema
        IN result.entry = (IF fvg.type # "None" /\ bound # None
                           THEN (IF long THEN fvg.low ELSE fvg.high)
                           ELSE IF near THEN ema ELSE cp)

\* C15 amended: with a relevant FVG and the matching Order Block bound entry
\* is the FVG low (long) or high (short); otherwise entry is the long EMA
\* when the current price is more than 0.5 % beyond it in the trade's
\* direction (above EMA x 1.005 for long, below EMA x 0.995 for short) and
\* the current price in every other case.
C15_EntryPrice ==
    (Returned /\ Directional) =>
        LET fvg == loc.smc.relevant_fvg
            long == loc.direction = "long"
            bound == IF long THEN loc.smc.ob_low ELSE loc.smc.ob_high
            ema == provider.last.ema21
            cp == loc.current_price
            extended == IF long THEN 1000 * cp > 1005 * ema ELSE 1000 * cp < 995 * ema
        IN result.entry = (IF fvg.type # "None" /\ bound # None
                           THEN (IF long THEN fvg.low ELSE fvg.high)
                           ELSE IF extended THEN ema ELSE cp)

\* a long plan without a Bullish FVG, the price well above the long EMA:
\* entry is the EMA
C15_Witness ==
    /\ Returned /\ loc.direction = "long"
    /\ loc.smc.relevant_fvg.type = "None"
    /\ loc.current_price > provider.last.ema21
    /\ result.entry = provider.last.ema21

\* C16: with no forced direction the direction before the weak-trend filter
\* is long exactly when ema_short > ema_long and rsi < 70, short exactly when
\* ema_short < ema_long and rsi > 30, and neutral in every other case; long
\* and short are never satisfied together.
C16_AutoRule ==
    (loc.direction # "" /\ args.forced_direction = "None") =>
        LET e13 == provider.last.ema13
            e21 == provider.last.ema21
            rsi == provider.last.rsi
            numbers == IsNum(e13) /\ IsNum(e21) /\ IsNum(rsi)
            long == numbers /\ e13 > e21 /\ rsi < 70
            short == numbers /\ e13 < e21 /\ rsi > 30
        IN /\ (loc.rule_direction = "long") = long
           /\ (loc.rule_direction = "short") = short
           /\ (loc.rule_direction = "neutral") = (~long /\ ~short)
           /\ ~(long /\ short)

\* rising EMAs with the RSI exactly 70: neutral
C16_Witness ==
    /\ Returned
    /\ args.forced_direction = "None"
    /\ provider.last.ema13 > provider.last.ema21
    /\ provider.last.rsi = 70
    /\ loc.rule_direction = "neutral"

\* the sum of the rule contributions other than the stochastic one
OtherContributions(a) ==
    EmaScore(a.direction, a.ema13, a.ema21).pts
    + SpreadScore(a.ema13, a.ema21, a.current_price).pts
    + MacdScore(a.direction, a.macd_line, a.macd_signal).pts
    + RsiScore(a.direction, a.rsi).pts
    + SmcScore(a.relevant_fvg, a.ob_high, a.ob_low, a.entry_price, a.current_price).pts
    + VolScore(a.vol_ratio).pts

InSeq(x, seq) == \E i \in 1..Len(seq) : seq[i] = x

StochFailed == provider.last.stoch_k = NaN \/ provider.last.stoch_d = NaN

\* C17: when the stochastic oscillator is unavailable (its columns hold NaN
\* after a failed computation), the plan still completes without an error,
\* the stochastic contributes 0 to the confidence, and the reason
\* "stochastic unavailable" is among the confidence reasons.
C17_StochUnavailable ==
    (StochFailed /\ Directional /\ pc \in {"score", "done", "raised"}) =>
        /\ pc # "raised" /\ raised = ""
        /\ pc = "done" =>
              /\ InSeq("stoch_unavailable", result.confidence_reasons)
              /\ loc.conf.raw = OtherContributions(ScoreArgs(provider.last, loc))
              /\ result.confidence = ClampScore(loc.conf.raw)

\* a plan was returned although both stochastic columns held NaN
C17_Witness ==
    /\ Returned /\ Directional
    /\ provider.last.stoch_k = NaN /\ provider.last.stoch_d = NaN
    /\ InSeq("stoch_unavailable", result.confidence_reasons)

\* the RSI row of the scoring table, read with inclusive band ends and the
\* neutral zone taking the shared ends 40 and 60
RsiTable(direction, rsi) ==
    IF rsi = NaN THEN 0
    ELSE IF 40 <= rsi /\ rsi <= 60 THEN 12
    ELSE IF direction = "long" /\ 30 <= rsi /\ rsi <= 40 THEN 10
    ELSE IF direction = "short" /\ 60 <= rsi /\ rsi <= 70 THEN 10
    ELSE IF direction = "long" /\ rsi > 70 THEN -10
    ELSE IF direction = "short" /\ rsi < 30 THEN -10
    ELSE IF direction = "long" /\ 60 <= rsi /\ rsi <= 70 THEN 5
    ELSE IF direction = "short" /\ 30 <= rsi /\ rsi <= 40 THEN 5
    ELSE 0

\* what the RSI rule added to the returned sum
RsiContribution ==
    result.raw - (EmaScore(loc.a.direction, loc.a.ema13, loc.a.ema21).pts
                  + SpreadScore(loc.a.ema13, loc.a.ema21, loc.a.current_price).pts
                  + MacdScore(loc.a.direction, loc.a.macd_line, loc.a.macd_signal).pts
                  + SmcScore(loc.a.relevant_fvg, loc.a.ob_high, loc.a.ob_low,
                             loc.a.entry_price, loc.a.current_price).pts
                  + StochScore(loc.a.direction, loc.a.stoch_k, loc.a.stoch_d).pts
                  + VolScore(loc.a.vol_ratio).pts)

\* C18: the RSI contribution to the confidence score is +12 for
\* 40 <= rsi <= 60, +10 in the mild favourable band (30-40 long, 60-70
\* short), -10 at the unfavourable extreme (above 70 long, below 30 short),
\* +5 in the mild unfavourable band (60-70 long, 30-40 short) and 0
\* otherwise, for every direction and RSI value, 30, 40, 60 and 70 included.
C18_RsiContribution ==
    pc = "returned" =>
        /\ RsiContribution = RsiTable(loc.a.direction, loc.a.rsi)
        /\ RsiContribution \in {12, 10, -10, 5, 0}

\* a long setup scored at the band end rsi = 70 received the mild +5
C18_Witness ==
    /\ pc = "returned"
    /\ loc.a.direction = "long" /\ loc.a.rsi = 70
    /\ RsiContribution = 5

\* what the stochastic rule added to the returned sum
StochContribution ==
    result.raw - (EmaScore(loc.a.direction, loc.a.ema13, loc.a.ema21).pts
                  + SpreadScore(loc.a.ema13, loc.a.ema21, loc.a.current_price).pts
                  + MacdScore(loc.a.direction, loc.a.macd_line, loc.a.macd_signal).pts
                  + RsiScore(loc.a.direction, loc.a.rsi).pts
                  + SmcScore(loc.a.relevant_fvg, loc.a.ob_high, loc.a.ob_low,
                             loc.a.entry_price, loc.a.current_price).pts
                  + VolScore(loc.a.vol_ratio).pts)

\* the stochastic rows of the scoring table; the extreme zone of the
\* crossover bonus is %K below cross (long) or above 100 - cross (short),
\* the zone of the pre-crossover bonus is %K below wait or above 100 - wait
StochTable(direction, k, d, cross, wait) ==
    LET matching == \/ direction = "long" /\ GT(k, d)
                    \/ direction = "short" /\ LT(k, d)
        favourable(t) == \/ direction = "long" /\ LT(k, t)
                         \/ direction = "short" /\ GT(k, 100 - t)
        opposing(t) == \/ direction = "long" /\ GT(k, 100 - t)
                       \/ direction = "short" /\ LT(k, t)
    IN IF k = None \/ d = None THEN 0
       ELSE IF matching
       THEN 8 + (IF favourable(cross) THEN 4 ELSE IF opposing(cross) THEN -3 ELSE 0)
       ELSE IF favourable(wait) THEN 3 ELSE 0

\* the two readings of "the extreme zone": below 20 / above 80, or below
\* 30 / above 70
ZoneReadings == {20, 30}

\* C19 as stated, with one favourable extreme zone for both the crossover
\* bonus and the pre-crossover bonus: whichever of the two zones is meant,
\* the contribution follows the table for every direction and (%K, %D).
C19_Original ==
    pc = "returned" =>
        \E zone \in ZoneReadings :
            \A direction \in {"long", "short"}, st \in ScoreStochInputs :
                StochScore(direction, st[1], st[2]).pts
                    = StochTable(direction, st[1], st[2], zone, zone)

\* C19: the stochastic contribution is +8 for a crossover matching the
\* direction, plus +4 when %K is below 20 (long) or above 80 (short) and -3
\* when %K is above 80 (long) or below 20 (short); without a matching
\* crossover it is +3 when %K is below 30 (long) or above 70 (short) and 0
\* otherwise; the sub-score added to the total lies in [-5, +12].
C19_StochContribution ==
    pc = "returned" =>
        /\ StochContribution
               = StochTable(loc.a.direction, loc.a.stoch_k, loc.a.stoch_d, 20, 30)
        /\ StochContribution >= -5 /\ StochContribution <= 12

\* a long setup without crossover and %K = 25 (between the two zones)
\* received the pre-crossover +3
C19_Witness ==
    /\ pc = "returned"
    /\ loc.a.direction = "long"
    /\ loc.a.stoch_k = 25 /\ loc.a.stoch_d = 50
    /\ StochContribution = 3

\* the tasks of a coin that completed successfully
Succeeded(coin) ==
    {i \in 1..Len(tasks) : tasks[i].coin = coin /\ tasks[i].out.kind = "ok"}

\* the coins of the request that are scanned
Accepted == {k \in 1..Len(scan.coins) : ~LooksLikeParameter(scan.coins[k])}

\* C20: a scan request naming more than 5 coins is rejected before any
\* setup is evaluated; otherwise every accepted coin gets its four setups
\* (1h long, 1h short, 4h long, 4h short), all started together, and once
\* they have all finished the message of each coin carries the setup of
\* highest confidence among the coin's successful setups, or is an error
\* message when the coin has no successful setup.
C20_Scan ==
    /\ scan.phase # "idle" =>
          /\ Len(scan.coins) > MAX_SCAN_COINS =>
                /\ scan.phase \in {"received", "rejected"}
                /\ tasks = <<>>
          /\ scan.phase = "rejected" => Len(scan.coins) > MAX_SCAN_COINS
    /\ scan.phase \in {"running", "reported"} =>
          /\ Len(tasks) = 4 * Cardinality(Accepted)
          /\ \A k \in Accepted, tf \in {"1h", "4h"}, d \in {"long", "short"} :
                \E i \in 1..Len(tasks) :
                    /\ tasks[i].coin = scan.coins[k]
                    /\ tasks[i].timeframe = tf /\ tasks[i].direction = d
    /\ scan.phase = "reported" =>
          /\ Len(scan.report) = Len(scan.coins)
          /\ \A k \in 1..Len(scan.coins) :
                LET coin == scan.coins[k]
                    msg == scan.report[k]
                IN /\ msg.coin = coin
                   /\ msg.kind = "error" <=> Succeeded(coin) = {}
                   /\ msg.kind # "error" =>
                         /\ msg.kind = "result"
                         /\ \E i \in Succeeded(coin) :
                               /\ msg.confidence = tasks[i].out.confidence
                               /\ msg.timeframe = tasks[i].timeframe
                               /\ msg.direction = tasks[i].direction
                               /\ msg.data = tasks[i].out.result
                         /\ \A j \in Succeeded(coin) :
                               tasks[j].out.confidence <= msg.confidence

\* a scan was reported in which the best setup of a coin was not its first
\* successful one
C20_Witness ==
    /\ scan.phase = "reported"
    /\ \E k \in 1..Len(scan.coins) :
          /\ scan.report[k].kind = "result"
          /\ \E j \in Succeeded(scan.coins[k]) :
                /\ tasks[j].out.confidence < scan.report[k].confidence
                /\ \A i \in Succeeded(scan.coins[k]) : j <= i

\* C21: find_smc_levels picks, among the FVGs of the type matching the
\* direction (Bullish for long, Bearish for short), one whose level is
\* nearest to the last close, never an FVG of the other type, and none when
\* no FVG of the matching type exists; the Order Block high and low are
\* those of the candle at relevant_fvg.bar_index - 2.
C21_RelevantFvg ==
    pc = "returned" =>
        LET df == loc.df
            close == df[Len(df)].close
            target == IF loc.direction = "long" THEN "Bullish" ELSE "Bearish"
            matching == {k \in 1..Len(result.fvgs) : result.fvgs[k].type = target}
            r == result.smc
        IN IF matching = {}
           THEN r.relevant_fvg = NoFvg /\ r.ob_high = None /\ r.ob_low = None
           ELSE /\ \E k \in matching : r.relevant_fvg = result.fvgs[k]
                /\ \A k \in matching :
                      Abs(r.relevant_fvg.level - close) <= Abs(result.fvgs[k].level - close)
                /\ r.ob_high = df[r.relevant_fvg.bar_index - 2 + 1].high
                /\ r.ob_low = df[r.relevant_fvg.bar_index - 2 + 1].low

\* a gap of the matching type was selected although a gap of the other
\* type lay strictly nearer to the last close
C21_Witness ==
    /\ pc = "returned"
    /\ result.smc.relevant_fvg.type # "None"
    /\ \E k \in 1..Len(result.fvgs) :
          /\ result.fvgs[k].type # result.smc.relevant_fvg.type
          /\ Abs(result.fvgs[k].level - loc.df[Len(loc.df)].close)
                < Abs(result.smc.relevant_fvg.level - loc.df[Len(loc.df)].close)

\* the last row has been read
Analysed == loc.atr # None

\* C22: when the last row's ATR is NaN or zero, the ATR used for the stop
\* buffer, the safety clamp and the 2 x ATR fallbacks is 0.2 % of the
\* current price; the ATR used is strictly positive whenever the current
\* price is not zero.
C22_AtrFloor ==
    Analysed =>
        LET last_atr == provider.last.atr
            floor == Abs((loc.current_price * 2) \div 1000)
            used == IF last_atr = NaN \/ last_atr = 0 THEN floor ELSE last_atr
        IN /\ loc.atr = used
           /\ loc.current_price # 0 => loc.atr > 0
           /\ PlanBuilt =>
                 loc.plan = TradePlan(loc.direction, loc.df, loc.smc, provider.last.ema21,
                                      loc.current_price, used, loc.quality)

\* a plan was returned from a last row whose ATR was NaN
C22_Witness ==
    /\ Returned /\ PlanBuilt
    /\ provider.last.atr = NaN
    /\ loc.atr = (loc.current_price * 2) \div 1000
    /\ loc.atr > 0

C24_RefreshKeepsPairs ==
    (/\ calls # <<>>
     /\ result.call = "get_all_pairs" /\ result.force_refresh
     /\ ~result.api_answered
     /\ result.before.known /\ result.before.pairs # {}) =>
        /\ result.returned = result.before.pairs
        /\ get_all_pairs(bybit, FALSE).PAIRS_CACHE.pairs = result.before.pairs
        /\ ApiAnswers(bybit) \/
              \A symbol \in result.before.pairs : pair_exists(bybit, symbol).found

\* the data module that belongs to an exchange name (the files of src/)
OwnModule(exchange) ==
    CASE exchange = "bybit" -> "bybit_data"
      [] exchange = "binance" -> "binance_data"
      [] exchange = "bitget" -> "bitget_data"
      [] exchange = "gateio" -> "gate_data"

\* C25: for every exchange name the bot accepts, the candles are fetched by
\* that exchange's own data module, so the 'exchange' field of a returned
\* plan names the exchange whose candles were used.
C25_OwnModule ==
    (args.exchange \in ACCEPTED_EXCHANGES /\ Called("fetch_ohlc")) =>
        /\ loc.module = OwnModule(args.exchange)
        /\ Returned => result.exchange = Upper(args.exchange)

\* the timeframe an exchange interval stands for
Denotes(module, interval) ==
    IF module = "binance_data" THEN interval
    ELSE CASE interval = "1" -> "1m"
           [] interval = "3" -> "3m"
           [] interval = "5" -> "5m"
           [] interval = "15" -> "15m"
           [] interval = "30" -> "30m"
           [] interval = "60" -> "1h"
           [] interval = "240" -> "4h"
           [] interval = "D" -> "1d"
           [] OTHER -> ""

\* C26: each of the 12 supported timeframes, once it has passed the
\* validation of generate_trade_plan, is fetched from the selected exchange
\* as candles of that same timeframe: fetch_ohlc does not reject it and
\* does not request another granularity (1M is not requested as 1m).
C26_SameTimeframe ==
    (args.timeframe \in VALID_TFS /\ Called("fetch_ohlc")) =>
        /\ raised # "UnsupportedTimeframe"
        /\ Denotes(loc.module, loc.interval) = args.timeframe

\* the stop placed 0.2 x ATR beyond the swing point of the last 20 candles
SwingStop ==
    IF loc.direction = "long"
    THEN MinLow(loc.df, Len(loc.df) - 19, Len(loc.df)) - (loc.atr * 2) \div 10
    ELSE MaxHigh(loc.df, Len(loc.df) - 19, Len(loc.df)) + (loc.atr * 2) \div 10

\* the stop of the safety clamp: max(1.5 x ATR, 1 % of the entry) away
ClampedStop ==
    LET distance == Max2((loc.atr * 15) \div 10, loc.plan.entry_price \div 100)
    IN IF loc.direction = "long" THEN loc.plan.entry_price - distance
       ELSE loc.plan.entry_price + distance

\* the stop set when the risk is below 1e-8: 2 x ATR away from the entry
RederivedStop ==
    IF loc.direction = "long" THEN loc.plan.entry_price - 2 * loc.atr
    ELSE loc.plan.entry_price + 2 * loc.atr

C28_OrderBlockPresent ==
    Called("find_smc_levels") =>
        /\ \A k \in 1..Len(loc.fvgs) :
              /\ loc.fvgs[k].bar_index >= 2
              /\ loc.fvgs[k].bar_index <= Len(loc.df) - 1
        /\ (loc.smc.relevant_fvg.type # "None")
              <=> (loc.smc.ob_high # None /\ loc.smc.ob_low # None)
        /\ loc.smc.relevant_fvg.type # "None" =>
              /\ loc.smc.relevant_fvg.bar_index - 2 >= 0
              /\ loc.smc.ob_high = loc.df[loc.smc.relevant_fvg.bar_index - 2 + 1].high
              /\ loc.smc.ob_low = loc.df[loc.smc.relevant_fvg.bar_index - 2 + 1].low

\* the relevant FVG is the earliest possible one (bar_index 2) and its Order
\* Block is the first candle of the frame
C28_Witness ==
    /\ Called("find_smc_levels")
    /\ loc.smc.relevant_fvg.type # "None"
    /\ loc.smc.relevant_fvg.bar_index = 2
    /\ loc.smc.ob_high = loc.df[1].high /\ loc.smc.ob_low = loc.df[1].low

\* the caller's forced direction is one that generate_trade_plan applies
Forced ==
    /\ args.forced_direction \notin {"None", ""}
    /\ Lower(args.forced_direction) \in {"long", "short"}

\* C29: when no direction is forced, a non-neutral plan has
\* ema_short > ema_long and rsi < 70 (long) or ema_short < ema_long and
\* rsi > 30 (short); its confidence therefore contains the EMA alignment
\* +8 and neither the EMA counter-trend penalty (-5) nor the RSI extreme
\* penalty (-10).
C29_NoPenaltyUnforced ==
    (Returned /\ Directional /\ ~Forced) =>
        LET last == provider.last
            reasons == result.confidence_reasons
        IN /\ loc.direction = "long" => (last.ema13 > last.ema21 /\ last.rsi < 70)
           /\ loc.direction = "short" => (last.ema13 < last.ema21 /\ last.rsi > 30)
           /\ EmaScore(loc.direction, last.ema13, last.ema21).pts = 8
           /\ RsiScore(loc.direction, last.rsi).pts # -10
           /\ InSeq("ema_bull+8", reasons) \/ InSeq("ema_bear+8", reasons)
           /\ \A why \in {"ema_counter_long-5", "ema_counter_short-5",
                          "rsi_overbought-10", "rsi_oversold-10"} : ~InSeq(why, reasons)

\* an auto-resolved short was returned with the EMA alignment +8, the
\* caller having passed a direction that is not applied ("Buy" or "")
C29_Witness ==
    /\ Returned /\ Directional /\ ~Forced
    /\ args.forced_direction # "None"
    /\ loc.direction = "short"
    /\ InSeq("ema_bear+8", result.confidence_reasons)

ListenerRuns == listener.pc # "off"

Grown(backoff) ==
    {Min((backoff * 3) \div 2, 120 * BackoffUnit), Min(backoff * 2, 120 * BackoffUnit)}

BackoffBounded ==
    ListenerRuns =>
        /\ listener.backoff >= BackoffUnit
        /\ listener.backoff <= 120 * BackoffUnit
        /\ listener.pc = "listening" => listener.backoff = BackoffUnit

BackoffStep ==
    ListenerRuns =>
        /\ listener.pc = "connected" /\ listener'.pc = "listening"
              => listener'.backoff = BackoffUnit
        /\ listener'.backoff < listener.backoff
              => listener.pc = "connected" /\ listener'.pc = "listening"
        /\ listener'.backoff > listener.backoff
              => /\ listener.pc = "closed"
                 /\ listener'.backoff \in Grown(listener.backoff)
        /\ ~listener.SHOULD_RUN
              => /\ ~listener'.SHOULD_RUN
                 /\ listener'.pc = "connecting" => listener.pc = "connecting"

\* the listener leaves the state in which the connection has just been made
ConnectionUsed == listener.pc = "connected" /\ listener'.pc # "connected"

=============================================================================
